---- MODULE Spec2Model ----
(***************************************************************************)
(* Model of the netmap memory allocator (sys/dev/netmap/netmap_mem2.c)     *)
(* and of the veth peer-ring protocol (LINUX/veth_netmap.h).               *)
(*                                                                         *)
(* Twelve specifications share one set of variables:                       *)
(*   SpecSync  data plane of one cross-linked kring pair (txsync, rxsync)  *)
(*   Spec      the allocator of one memory domain and its ring fabric      *)
(*   SpecDom   life cycle of the domain alone (sysctl writes, finalize by  *)
(*             users of any IOMMU group, deref)                            *)
(*   SpecPool  netmap_obj_malloc / netmap_obj_free on the pools of a       *)
(*             finalized domain                                            *)
(*   SpecCtl   control plane of a veth pair (krings_create, krings_delete, *)
(*             register on and off)                                        *)
(*   SpecList  the list of all allocators (private allocators created and  *)
(*             released, identifiers assigned)                             *)
(*   SpecRef   references to the allocators taken and dropped by two       *)
(*             threads (get, find, put, delete)                            *)
(*   SpecStep  data plane with txsync taken one shared access at a time    *)
(*   SpecLive  SpecStep with the notifications and weak fairness of the    *)
(*             notified syncs, the carrier up                              *)
(*   SpecLock  nm_mem_list_lock taken and dropped by two threads around    *)
(*             the changes of the list of the allocators                   *)
(*   SpecMtx   the mutex of the allocators taken and dropped by the        *)
(*             operations of the global and of the ptnetmap variant        *)
(*   SpecSize  the sizes netmap_mem_config and the finalize compute from   *)
(*             the parameters the limits of the pools accept               *)
(***************************************************************************)
EXTENDS Integers, Sequences, FiniteSets, Bags, TLC

VARIABLES
    tx_rings,   \* [adapter -> BOOLEAN]  na->tx_rings != NULL (krings exist)
    kring,      \* [kring id -> struct netmap_kring]
    ring,       \* [kring id -> struct netmap_ring] contents of kring->ring
    carrier,    \* [adapter -> BOOLEAN]  netif_carrier_ok(na->ifp)
    peer,       \* [adapter -> BOOLEAN]  priv->peer != NULL
    call,       \* observable outcome of the most recent handler call
    nm_mem,     \* struct netmap_mem_d nm_mem: the domain the adapters use
    os_heap,    \* regions handed out by contigmalloc
    ifmem,      \* [IF object address -> contents of the struct netmap_if]
    bufw,       \* [BUF object index -> first 32-bit word of the buffer]
    priv,       \* struct netmap_priv_d of the client of the allocator
    others,     \* number of other users of the domain
    host_rings, \* [adapter -> BOOLEAN]  na_flags & NAF_HOST_RINGS
    mem_list,   \* the allocators netmap_last_mem_d links, in next order
    deleting,   \* [thread -> allocator it has unlinked and not yet deleted]
    syncs,      \* the txsync call in progress and the wake-ups pending
    locks,      \* holders of nm_mem_list_lock and of the domain mutex, and
                \* the point each thread has reached in its operation
    held,       \* [pool -> indices handed out and not freed since] (history)
    log         \* obj_malloc / obj_free calls made by the most recent handler,
                \* or the sizes it has computed

vethVars == <<tx_rings, kring, ring, carrier, peer>>

memVars ==
    <<nm_mem, os_heap, ifmem, bufw, priv, others, host_rings, mem_list,
      deleting, syncs, locks, held, log>>

(***************************************************************************)
(* Bounds                                                                  *)
(***************************************************************************)
\* slots per ring (veth_netmap_attach asks for 1024; scaled down)
NumDesc == 3

(***************************************************************************)
(* Adapters, directions and krings                                         *)
(***************************************************************************)
Adapters == {0, 1}

NR_RX == 0

NR_TX == 1

TxRx == {NR_RX, NR_TX}

\* na.num_tx_rings = na.num_rx_rings = 1
NRings == 1

\* index NRings is the host kring: the kring arrays hold NRings + 1 entries
KIdx == 0..NRings

KringIds == Adapters \X TxRx \X KIdx

\* the krings of adapter na
KringsOf(na) == {k \in KringIds : k[1] = na}

NoKring == <<>>

NULL == 0

NKR_NETMAP_OFF == 0

NKR_NETMAP_ON == 1

PeerOf(na) == 1 - na

nm_txrx_swap(t) == IF t = NR_TX THEN NR_RX ELSE NR_TX

nm_next(i, lim) == IF i = lim THEN 0 ELSE i + 1

nm_prev(i, lim) == IF i = 0 THEN lim ELSE i - 1

NoRing ==
    [num_slots |-> 0, buf_ofs |-> 0, head |-> 0, cur |-> 0, tail |-> 0,
     nr_buf_size |-> 0, ringid |-> 0, dir |-> 0, slot |-> <<>>]

\* a kring as netmap_krings_create leaves it
NewKring(t, i) ==
    [pipe |-> NoKring,
     nr_hwcur |-> 0,
     nr_hwtail |-> IF t = NR_TX THEN NumDesc - 1 ELSE 0,
     rhead |-> 0, rcur |-> 0,
     rtail |-> IF t = NR_TX THEN NumDesc - 1 ELSE 0,
     nkr_num_slots |-> NumDesc,
     nr_mode |-> NKR_NETMAP_OFF,
     nr_pending_mode |-> NKR_NETMAP_OFF,
     needring |-> FALSE,
     users |-> 0,
     ring_id |-> i,
     tx |-> t,
     ring |-> NULL]

\* slot array accessors: slot[i] of the C array is element i + 1
SlotAt(s, i) == s[i + 1]

SlotPut(s, i, v) == [s EXCEPT ![i + 1] = v]

NoCall == [op |-> "none", k |-> NoKring, ret |-> 0, n |-> 0, notify |-> <<>>]

(***************************************************************************)
(* netmap_mem2.c: object pools                                             *)
(***************************************************************************)
NETMAP_IF_POOL == 0

NETMAP_RING_POOL == 1

NETMAP_BUF_POOL == 2

Pools == {NETMAP_IF_POOL, NETMAP_RING_POOL, NETMAP_BUF_POOL}

PAGE_SIZE == 4096

LINE_ROUND == 64

MAX_CLUSTSIZE == 4194304

EINVAL == 22

ENOMEM == 12

\* bits of one bitmap word (uint32_t)
WordBits == 32

\* sizeof(struct netmap_if), sizeof(struct netmap_ring), sizeof(struct
\* netmap_slot), sizeof(ssize_t)
SizeofNetmapIf == 56

SizeofNetmapRing == 256

SizeofNetmapSlot == 16

SizeofSsize == 8

\* the limits of the pools of nm_mem, the global allocator
PoolLimits(i) ==
    IF i = NETMAP_IF_POOL
    THEN [objminsize |-> SizeofNetmapIf, objmaxsize |-> 4096,
          nummin |-> 10, nummax |-> 10000]
    ELSE IF i = NETMAP_RING_POOL
    THEN [objminsize |-> SizeofNetmapRing, objmaxsize |-> 32 * PAGE_SIZE,
          nummin |-> 2, nummax |-> 1024]
    ELSE [objminsize |-> 64, objmaxsize |-> 65536,
          nummin |-> 4, nummax |-> 1000000]

\* a pool before configuration (all fields zero except the limits)
NewPool(i) ==
    [objtotal |-> 0, memtotal |-> 0, numclusters |-> 0, objfree |-> 0,
     lut_set |-> FALSE, lut |-> <<>>,
     bitmap_set |-> FALSE, bitmap |-> <<>>, bitmap_slots |-> 0,
     objminsize |-> PoolLimits(i).objminsize,
     objmaxsize |-> PoolLimits(i).objmaxsize,
     nummin |-> PoolLimits(i).nummin,
     nummax |-> PoolLimits(i).nummax,
     _objtotal |-> 0, _objsize |-> 0, _clustsize |-> 0,
     _clustentries |-> 0, _numclusters |-> 0,
     r_objtotal |-> 0, r_objsize |-> 0]

\* lut[i].vaddr of the C array (element i + 1 of the sequence)
LutAt(p, i) == p.lut[i + 1]

RECURSIVE ClustEntries(_, _)
\* the brute-force loop of netmap_config_obj_allocator: the smallest i >= 1
\* with i * objsize a multiple of PAGE_SIZE and at most MAX_CLUSTSIZE, else 0
ClustEntries(i, objsize) ==
    IF i * objsize > MAX_CLUSTSIZE THEN 0
    ELSE IF (i * objsize) % PAGE_SIZE = 0 THEN i
    ELSE ClustEntries(i + 1, objsize)

\* netmap_config_obj_allocator(p, objtotal, objsize)
netmap_config_obj_allocator(p, objtotal, objsize0) ==
    LET p1 == [p EXCEPT !.r_objtotal = objtotal, !.r_objsize = objsize0]
        rem == objsize0 % LINE_ROUND
        objsize == IF rem # 0 THEN objsize0 + (LINE_ROUND - rem) ELSE objsize0
        clustentries == ClustEntries(1, objsize)
        clustsize == clustentries * objsize
        numclusters == (objtotal + clustentries - 1) \div clustentries
    IN  IF objsize0 >= MAX_CLUSTSIZE THEN [p |-> p1, err |-> EINVAL]
        ELSE IF objsize < p.objminsize \/ objsize > p.objmaxsize
        THEN [p |-> p1, err |-> EINVAL]
        ELSE IF objtotal < p.nummin \/ objtotal > p.nummax
        THEN [p |-> p1, err |-> EINVAL]
        ELSE IF clustentries = 0 THEN [p |-> p1, err |-> EINVAL]
        ELSE [p |-> [p1 EXCEPT !._clustentries = clustentries,
                               !._clustsize = clustsize,
                               !._numclusters = numclusters,
                               !._objsize = objsize,
                               !._objtotal = numclusters * clustentries],
              err |-> 0]

(***************************************************************************)
(* The contiguous-page allocator (contigmalloc / contigfree).  The heap is *)
(* the set of regions handed out; a region is [base, size].                *)
(***************************************************************************)
\* pages of the arena the clusters are carved from
ArenaPages == 100

PageAddrs == {pg * PAGE_SIZE : pg \in 1..ArenaPages}

Overlaps(b, n, r) == b < r.base + r.size /\ r.base < b + n

\* page-aligned addresses at which n bytes are free
FreeAt(heap, n) ==
    {b \in PageAddrs : /\ b + n <= (ArenaPages + 1) * PAGE_SIZE
                       /\ \A r \in heap : ~Overlaps(b, n, r)}

SetMin(S) == CHOOSE x \in S : \A y \in S : x <= y

SetMax(S) == CHOOSE x \in S : \A y \in S : x >= y

\* contigmalloc(n, ...): NULL when it fails; placement is up to the OS and
\* is modelled by a policy: lowest fit, highest fit, or alternating
contigmalloc(heap, n, policy, callno, fail) ==
    LET cand == FreeAt(heap, n)
        low == policy = "low" \/ (policy = "alt" /\ callno % 2 = 0)
    IN  IF fail \/ cand = {} THEN NULL
        ELSE IF low THEN SetMin(cand) ELSE SetMax(cand)

contigfree(heap, addr) == {r \in heap : r.base # addr}

\* vtophys(): the kernel's linear map from virtual to physical addresses
PhysOffset == 16777216

vtophys(v) == v + PhysOffset

\* netmap_reset_obj_allocator(p): frees the bitmap, every cluster whose start
\* is recorded at a multiple of _clustentries below objtotal, and the lut
netmap_reset_obj_allocator(p, heap) ==
    LET starts == IF p.lut_set
                  THEN {LutAt(p, i) : i \in {j \in 0..(p.objtotal - 1) :
                                      j % p._clustentries = 0}} \ {NULL}
                  ELSE {}
    IN [p |-> [p EXCEPT !.bitmap_set = FALSE, !.bitmap = <<>>,
                        !.lut_set = FALSE, !.lut = <<>>,
                        !.objtotal = 0, !.memtotal = 0,
                        !.numclusters = 0, !.objfree = 0],
        heap |-> {r \in heap : r.base \notin starts}]

RECURSIVE HalveLoop(_, _, _, _)
\* for (i--; i >= lim; i--) of the halving path, entered with i already
\* decremented; yields the lut, the heap and the final value of i
HalveLoop(p, heap, i, lim) ==
    IF i >= lim
    THEN LET v == LutAt(p, i)
             heap1 == IF i % p._clustentries = 0 /\ v # NULL
                      THEN contigfree(heap, v) ELSE heap
         IN HalveLoop([p EXCEPT !.lut[i + 1] = NULL], heap1, i - 1, lim)
    ELSE [p |-> p, heap |-> heap, i |-> i]

RECURSIVE FinalizeLoop(_, _, _, _, _, _)
\* for (i = 0; i < (int)p->objtotal;) of netmap_finalize_obj_allocator;
\* callno counts the contigmalloc calls of the enclosing finalize and the
\* call number failAt fails
FinalizeLoop(p, heap, i, callno, policy, failAt) ==
    IF i < p.objtotal
    THEN LET clust == contigmalloc(heap, p._clustsize, policy, callno,
                                   callno = failAt)
         IN IF clust = NULL
            THEN LET h == IF i < 2
                          THEN [p |-> p, heap |-> heap, i |-> i]
                          ELSE HalveLoop(p, heap, i - 1, i \div 2)
                 IN [p |-> [h.p EXCEPT
                              !.objtotal = h.i,
                              !.numclusters =
                                 (h.i + p._clustentries - 1) \div p._clustentries],
                     heap |-> h.heap, callno |-> callno + 1]
            ELSE LET lim == i + p._clustentries
                     lut1 == [j \in 1..Len(p.lut) |->
                                IF j - 1 >= i /\ j - 1 < lim
                                THEN clust + (j - 1 - i) * p._objsize
                                ELSE p.lut[j]]
                 IN FinalizeLoop([p EXCEPT !.lut = lut1],
                        heap \cup {[base |-> clust, size |-> p._clustsize]},
                        lim, callno + 1, policy, failAt)
    ELSE [p |-> p, heap |-> heap, callno |-> callno]

\* netmap_finalize_obj_allocator(p); lutFail: nm_alloc_lut returns NULL
netmap_finalize_obj_allocator(p, heap, callno, policy, failAt, lutFail) ==
    LET p1 == [p EXCEPT !.numclusters = p._numclusters,
                        !.objtotal = p._objtotal]
        p2 == [p1 EXCEPT !.lut_set = TRUE,
                         !.lut = [j \in 1..p1.objtotal |-> NULL]]
        Failed(r) ==
            [p |-> r.p, heap |-> r.heap, callno |-> callno, err |-> ENOMEM]
        Allocated(l) ==
            [p |-> [l.p EXCEPT !.memtotal = l.p.numclusters * l.p._clustsize],
             heap |-> l.heap, callno |-> l.callno, err |-> 0]
    IN  IF lutFail THEN Failed(netmap_reset_obj_allocator(p1, heap))
        ELSE Allocated(FinalizeLoop(p2, heap, 0, callno, policy, failAt))

(***************************************************************************)
(* The free bitmap: bitmap[w] is the set of the bit positions set in word  *)
(* w; bit b of word w stands for object 32 * w + b.                        *)
(***************************************************************************)
AllBits == 0..(WordBits - 1)

\* ~3U
Not3U == AllBits \ {0, 1}

\* memset(p->bitmap, 0, p->bitmap_slots) clears bitmap_slots bytes, i.e. the
\* first 8 * bitmap_slots bits (little endian)
MemsetBitmap(p) ==
    [w \in 1..Len(p.bitmap) |->
        {b \in p.bitmap[w] : (w - 1) * WordBits + b >= 8 * p.bitmap_slots}]

\* netmap_init_obj_allocator_bitmap(p); allocFail: nm_os_malloc returns NULL
netmap_init_obj_allocator_bitmap(p, allocFail) ==
    IF ~p.bitmap_set /\ allocFail THEN [p |-> p, err |-> ENOMEM]
    ELSE
    LET n == (p.objtotal + 31) \div 32
        p1 == IF ~p.bitmap_set
              THEN [p EXCEPT !.bitmap_set = TRUE,
                             !.bitmap = [w \in 1..n |-> {}],
                             !.bitmap_slots = n]
              ELSE [p EXCEPT !.bitmap = MemsetBitmap(p)]
        free == {j \in 0..(p.objtotal - 1) : LutAt(p, j) # NULL}
        p2 == [p1 EXCEPT
                 !.bitmap = [w \in 1..Len(p1.bitmap) |->
                     p1.bitmap[w] \cup
                       {b \in AllBits : (w - 1) * WordBits + b \in free}],
                 !.objfree = Cardinality(free)]
    IN [p |-> p2, err |-> IF p2.objfree = 0 THEN ENOMEM ELSE 0]

\* the objects whose bit is set in the bitmap of p
FreeSet(p) ==
    UNION {{(w - 1) * WordBits + b : b \in p.bitmap[w]} : w \in 1..Len(p.bitmap)}

\* value read from lut[idx].vaddr; an index past the end of the lut reads
\* whatever lies behind the array (wild)
LutRead(p, idx, wild) == IF idx < Len(p.lut) THEN LutAt(p, idx) ELSE wild

NoIndex == -1

RECURSIVE MallocLoop(_, _, _, _, _)
\* while (vaddr == NULL && i < p->bitmap_slots) of netmap_obj_malloc
MallocLoop(p, i, vaddr, index, wild) ==
    IF vaddr = NULL /\ i < p.bitmap_slots
    THEN LET cur == p.bitmap[i + 1]
         IN IF cur = {}
            THEN MallocLoop(p, i + 1, vaddr, index, wild)
            ELSE LET j == SetMin(cur)
                     p1 == [p EXCEPT !.bitmap[i + 1] = @ \ {j},
                                     !.objfree = @ - 1]
                 IN MallocLoop(p1, i, LutRead(p, i * 32 + j, wild),
                               i * 32 + j, wild)
    ELSE [p |-> p, vaddr |-> vaddr, index |-> index, start |-> i]

\* variant that reports the object it finds and leaves its bit set
netmap_obj_malloc_NoClear(p, len, start, wild) ==
    IF len > p._objsize \/ p.objfree = 0
    THEN [p |-> p, vaddr |-> NULL, index |-> NoIndex, start |-> start]
    ELSE [MallocLoop(p, start, NULL, NoIndex, wild) EXCEPT !.p = p]

\* netmap_obj_malloc(p, len, start, index)
netmap_obj_malloc(p, len, start, wild) ==
    IF len > p._objsize
    THEN [p |-> p, vaddr |-> NULL, index |-> NoIndex, start |-> start]
    ELSE IF p.objfree = 0
    THEN [p |-> p, vaddr |-> NULL, index |-> NoIndex, start |-> start]
    ELSE MallocLoop(p, start, NULL, NoIndex, wild)

\* variant without the double-free test
netmap_obj_free_NoCheck(p, j) ==
    IF j >= p.objtotal THEN [p |-> p, ret |-> 1]
    ELSE [p |-> [p EXCEPT !.bitmap[(j \div 32) + 1] = @ \cup {j % 32},
                          !.objfree = @ + 1],
          ret |-> 0]

\* netmap_obj_free(p, j): 1 on a bad index or a double free, else 0
netmap_obj_free(p, j) ==
    IF j >= p.objtotal THEN [p |-> p, ret |-> 1]
    ELSE IF (j % 32) \in p.bitmap[(j \div 32) + 1] THEN [p |-> p, ret |-> 1]
    ELSE [p |-> [p EXCEPT !.bitmap[(j \div 32) + 1] = @ \cup {j % 32},
                          !.objfree = @ + 1],
          ret |-> 0]

RECURSIVE FreeVaLoop(_, _, _)
\* the cluster scan of netmap_obj_free_va; j is the index it frees, NoIndex
\* when the address lies in no cluster
FreeVaLoop(p, vaddr, i) ==
    IF i < p.numclusters
    THEN LET base == LutAt(p, i * p._clustentries)
             relofs == vaddr - base
         IN IF vaddr < base \/ relofs >= p._clustsize
            THEN FreeVaLoop(p, vaddr, i + 1)
            ELSE i * p._clustentries + relofs \div p._objsize
    ELSE NoIndex

\* netmap_obj_free_va(p, vaddr)
netmap_obj_free_va(p, vaddr) ==
    LET j == FreeVaLoop(p, vaddr, 0)
        Freed(f) == [p |-> f.p, ret |-> f.ret, j |-> j]
    IN IF j = NoIndex THEN [p |-> p, ret |-> 1, j |-> j]
       ELSE Freed(netmap_obj_free(p, j))

RECURSIVE ObjOffsetLoop(_, _, _, _)
\* for (i = 0; i < n; i += k, ofs += p->_clustsize) of netmap_obj_offset
ObjOffsetLoop(p, vaddr, i, ofs) ==
    IF i < p.objtotal
    THEN LET relofs == vaddr - LutAt(p, i)
         IN IF relofs < 0 \/ relofs >= p._clustsize
            THEN ObjOffsetLoop(p, vaddr, i + p._clustentries,
                               ofs + p._clustsize)
            ELSE ofs + relofs
    ELSE 0

\* variant that takes the clusters to be contiguous from lut[0] on
netmap_obj_offset_Contiguous(p, vaddr) ==
    IF p.objtotal = 0 THEN 0 ELSE vaddr - LutAt(p, 0)

\* netmap_obj_offset(p, vaddr): 0 when the address is in no cluster
netmap_obj_offset(p, vaddr) == ObjOffsetLoop(p, vaddr, 0, 0)

(***************************************************************************)
(* netmap_mem2.c: the memory domain (global variant)                       *)
(*                                                                         *)
(* The domain operators thread the domain and the heap; the ring fabric    *)
(* threads a record st:                                                    *)
(*   st.nmd    struct netmap_mem_d        st.ifmem  the netmap_if contents *)
(*   st.kring  the krings                 st.ring   the rings' contents    *)
(*   st.bufw   first word of each buffer  st.log    obj_malloc/obj_free log *)
(*   st.host_rings  NAF_HOST_RINGS of each adapter                         *)
(***************************************************************************)
NewParams == [size |-> 0, num |-> 0, last_size |-> 0, last_num |-> 0]

\* nm_mem as its initializer leaves it, before the parameters are set
NewDomain ==
    [nm_totalsize |-> 0, finalized |-> FALSE, lasterr |-> 0, active |-> 0,
     nm_grp |-> -1,
     pools |-> [i \in Pools |-> NewPool(i)],
     params |-> [i \in Pools |-> NewParams]]

\* outcome of the allocations the OS performs during one finalize
NoInjection == [policy |-> "low", failAt |-> 0, lutFail |-> -1, bmFail |-> -1]

RECURSIVE ParamsChangedLoop(_, _, _)
ParamsChangedLoop(params, i, rv) ==
    IF i < 3
    THEN IF params[i].last_size # params[i].size
            \/ params[i].last_num # params[i].num
         THEN ParamsChangedLoop(
                  [params EXCEPT ![i].last_size = params[i].size,
                                 ![i].last_num = params[i].num], i + 1, 1)
         ELSE ParamsChangedLoop(params, i + 1, rv)
    ELSE [params |-> params, rv |-> rv]

\* netmap_mem_params_changed(p)
netmap_mem_params_changed(params) == ParamsChangedLoop(params, 0, 0)

RECURSIVE ResetLoop(_, _, _)
\* for each pool: netmap_reset_obj_allocator
ResetLoop(nmd, heap, i) ==
    IF i < 3
    THEN LET Rest(r) == ResetLoop([nmd EXCEPT !.pools[i] = r.p], r.heap, i + 1)
         IN Rest(netmap_reset_obj_allocator(nmd.pools[i], heap))
    ELSE [nmd |-> nmd, heap |-> heap]

\* netmap_mem_reset_all(nmd)
netmap_mem_reset_all(nmd, heap) ==
    LET Done(r) == [nmd |-> [r.nmd EXCEPT !.finalized = FALSE], heap |-> r.heap]
    IN Done(ResetLoop(nmd, heap, 0))

RECURSIVE ConfigLoop(_, _)
\* the configuration loop of netmap_mem2_config, stopping at the first error
ConfigLoop(nmd, i) ==
    IF i < 3
    THEN LET Configured(c) ==
                IF c.err # 0
                THEN [nmd EXCEPT !.pools[i] = c.p, !.lasterr = c.err]
                ELSE ConfigLoop([nmd EXCEPT !.pools[i] = c.p,
                                            !.lasterr = c.err], i + 1)
         IN Configured(netmap_config_obj_allocator(nmd.pools[i],
                           nmd.params[i].num, nmd.params[i].size))
    ELSE nmd

\* variant that reconfigures whether or not the domain is in use
netmap_mem2_config_Always(nmd, heap) ==
    LET Configured(r, nmd2) ==
            [nmd |-> nmd2, heap |-> r.heap, err |-> nmd2.lasterr]
        Reset(r) == Configured(r, ConfigLoop(r.nmd, 0))
        Changed(ch) ==
            LET nmd1 == [nmd EXCEPT !.params = ch.params]
            IN  IF ch.rv = 0
                THEN [nmd |-> nmd1, heap |-> heap, err |-> nmd1.lasterr]
                ELSE IF nmd1.finalized
                THEN Reset(netmap_mem_reset_all(nmd1, heap))
                ELSE Reset([nmd |-> nmd1, heap |-> heap])
    IN Changed(netmap_mem_params_changed(nmd.params))

\* netmap_mem2_config(nmd)
netmap_mem2_config(nmd, heap) ==
    IF nmd.active # 0 THEN [nmd |-> nmd, heap |-> heap, err |-> nmd.lasterr]
    ELSE
    LET Configured(r, nmd2) ==
            [nmd |-> nmd2, heap |-> r.heap, err |-> nmd2.lasterr]
        Reset(r) == Configured(r, ConfigLoop(r.nmd, 0))
        Changed(ch) ==
            LET nmd1 == [nmd EXCEPT !.params = ch.params]
            IN  IF ch.rv = 0
                THEN [nmd |-> nmd1, heap |-> heap, err |-> nmd1.lasterr]
                ELSE IF nmd1.finalized
                THEN Reset(netmap_mem_reset_all(nmd1, heap))
                ELSE Reset([nmd |-> nmd1, heap |-> heap])
    IN Changed(netmap_mem_params_changed(nmd.params))

RECURSIVE InitBitmapsLoop(_, _, _)
InitBitmapsLoop(nmd, i, bmFail) ==
    IF i < 3
    THEN LET Initialized(b) ==
                IF b.err # 0
                THEN [nmd |-> [nmd EXCEPT !.pools[i] = b.p], err |-> b.err]
                ELSE InitBitmapsLoop([nmd EXCEPT !.pools[i] = b.p], i + 1,
                                     bmFail)
         IN Initialized(netmap_init_obj_allocator_bitmap(nmd.pools[i],
                                                         i = bmFail))
    ELSE [nmd |-> nmd, err |-> 0]

\* variant that accounts for the two reserved buffers in objfree only
netmap_mem_init_bitmaps_NoReserve(nmd, bmFail) ==
    LET Reserve(l) ==
            IF l.err # 0 THEN l
            ELSE IF l.nmd.pools[NETMAP_BUF_POOL].objfree < 2
            THEN [nmd |-> l.nmd, err |-> ENOMEM]
            ELSE [nmd |-> [l.nmd EXCEPT
                              !.pools[NETMAP_BUF_POOL].objfree = @ - 2],
                  err |-> 0]
    IN Reserve(InitBitmapsLoop(nmd, 0, bmFail))

\* netmap_mem_init_bitmaps(nmd): buffers 0 and 1 are reserved
netmap_mem_init_bitmaps(nmd, bmFail) ==
    LET Reserve(l) ==
            IF l.err # 0 THEN l
            ELSE IF l.nmd.pools[NETMAP_BUF_POOL].objfree < 2
            THEN [nmd |-> l.nmd, err |-> ENOMEM]
            ELSE [nmd |-> [l.nmd EXCEPT
                     !.pools[NETMAP_BUF_POOL].objfree = @ - 2,
                     !.pools[NETMAP_BUF_POOL].bitmap =
                         IF l.nmd.pools[NETMAP_BUF_POOL].bitmap_set
                         THEN [@ EXCEPT ![1] = Not3U] ELSE @],
                  err |-> 0]
    IN Reserve(InitBitmapsLoop(nmd, 0, bmFail))

RECURSIVE FinalizeAllLoop(_, _, _, _, _)
FinalizeAllLoop(nmd, heap, i, callno, inj) ==
    IF i < 3
    THEN LET Finalized(f) ==
                IF f.err # 0
                THEN [nmd |-> [nmd EXCEPT !.pools[i] = f.p, !.lasterr = f.err],
                      heap |-> f.heap]
                ELSE FinalizeAllLoop(
                        [nmd EXCEPT !.pools[i] = f.p, !.lasterr = f.err,
                                    !.nm_totalsize = @ + f.p.memtotal],
                        f.heap, i + 1, f.callno, inj)
         IN Finalized(netmap_finalize_obj_allocator(nmd.pools[i], heap, callno,
                          inj.policy, inj.failAt, inj.lutFail = i))
    ELSE [nmd |-> nmd, heap |-> heap]

\* variant whose error path leaves the pools as the failure found them
netmap_mem_finalize_all_NoReset(nmd, heap, inj) ==
    IF nmd.finalized THEN [nmd |-> nmd, heap |-> heap, err |-> 0]
    ELSE
    LET Error(r) == [nmd |-> r.nmd, heap |-> r.heap, err |-> r.nmd.lasterr]
        Bitmaps(l, b) ==
            IF b.err # 0
            THEN Error([nmd |-> [b.nmd EXCEPT !.lasterr = b.err],
                        heap |-> l.heap])
            ELSE [nmd |-> [b.nmd EXCEPT !.lasterr = b.err, !.finalized = TRUE],
                  heap |-> l.heap, err |-> 0]
        Clusters(l) ==
            IF l.nmd.lasterr # 0
            THEN Error([nmd |-> l.nmd, heap |-> l.heap])
            ELSE Bitmaps(l, netmap_mem_init_bitmaps(l.nmd, inj.bmFail))
    IN Clusters(FinalizeAllLoop([nmd EXCEPT !.lasterr = 0, !.nm_totalsize = 0],
                              heap, 0, 1, inj))

\* netmap_mem_finalize_all(nmd)
netmap_mem_finalize_all(nmd, heap, inj) ==
    IF nmd.finalized THEN [nmd |-> nmd, heap |-> heap, err |-> 0]
    ELSE
    LET \* error: netmap_mem_reset_all(nmd); return nmd->lasterr;
        Error(r) == [nmd |-> r.nmd, heap |-> r.heap, err |-> r.nmd.lasterr]
        Bitmaps(l, b) ==
            IF b.err # 0
            THEN Error(netmap_mem_reset_all([b.nmd EXCEPT !.lasterr = b.err],
                                            l.heap))
            ELSE [nmd |-> [b.nmd EXCEPT !.lasterr = b.err, !.finalized = TRUE],
                  heap |-> l.heap, err |-> 0]
        Clusters(l) ==
            IF l.nmd.lasterr # 0
            THEN Error(netmap_mem_reset_all(l.nmd, l.heap))
            ELSE Bitmaps(l, netmap_mem_init_bitmaps(l.nmd, inj.bmFail))
    IN Clusters(FinalizeAllLoop([nmd EXCEPT !.lasterr = 0, !.nm_totalsize = 0],
                              heap, 0, 1, inj))

\* netmap_mem2_finalize(nmd)
netmap_mem2_finalize(nmd, heap, inj) ==
    LET \* out: if (nmd->lasterr) nmd->active--; return nmd->lasterr;
        Out(f) ==
            LET nmd2 == IF f.nmd.lasterr # 0
                        THEN [f.nmd EXCEPT !.active = @ - 1] ELSE f.nmd
            IN [nmd |-> nmd2, heap |-> f.heap, err |-> nmd2.lasterr]
        All(fa) ==
            IF fa.err # 0 THEN Out([nmd |-> fa.nmd, heap |-> fa.heap])
            ELSE Out([nmd |-> [fa.nmd EXCEPT !.lasterr = 0], heap |-> fa.heap])
        Configured(c) ==
            IF c.err # 0
            THEN [nmd |-> c.nmd, heap |-> c.heap, err |-> c.nmd.lasterr]
            ELSE IF c.nmd.finalized
            THEN Out([nmd |-> [c.nmd EXCEPT !.active = @ + 1],
                      heap |-> c.heap])
            ELSE All(netmap_mem_finalize_all([c.nmd EXCEPT !.active = @ + 1],
                                             c.heap, inj))
    IN Configured(netmap_mem2_config(nmd, heap))

\* nm_iommu_group_id(na->pdev)
DevGroup(na) == na

\* nm_mem_assign_group(nmd, dev)
nm_mem_assign_group(nmd, id) ==
    LET nmd1 == IF nmd.nm_grp < 0 THEN [nmd EXCEPT !.nm_grp = id] ELSE nmd
    IN IF nmd1.nm_grp # id
       THEN [nmd |-> [nmd1 EXCEPT !.lasterr = ENOMEM], err |-> ENOMEM]
       ELSE [nmd |-> nmd1, err |-> 0]

\* netmap_mem_finalize(nmd, na)
netmap_mem_finalize(nmd, heap, na, inj) ==
    LET Finalized(f) ==
            [nmd |-> [f.nmd EXCEPT !.lasterr = f.err],
             heap |-> f.heap, err |-> f.err]
        Assigned(g) ==
            IF g.err < 0 THEN [nmd |-> g.nmd, heap |-> heap, err |-> ENOMEM]
            ELSE Finalized(netmap_mem2_finalize(g.nmd, heap, inj))
    IN Assigned(nm_mem_assign_group(nmd, DevGroup(na)))

\* netmap_mem2_deref(nmd)
netmap_mem2_deref(nmd) ==
    LET nmd1 == [nmd EXCEPT !.active = @ - 1]
    IN IF nmd1.active = 0 THEN [nmd1 EXCEPT !.nm_grp = -1] ELSE nmd1

\* variant that leaves the bitmaps alone when the last user leaves
netmap_mem_deref_NoReinit(nmd) == netmap_mem2_deref(nmd)

\* netmap_mem_deref(nmd, na)
netmap_mem_deref(nmd) ==
    IF nmd.active = 1
    THEN netmap_mem2_deref(netmap_mem_init_bitmaps(nmd, -1).nmd)
    ELSE netmap_mem2_deref(nmd)

RECURSIVE OfstophysLoop(_, _, _)
\* for (i = 0; i < NETMAP_POOLS_NR; offset -= p[i].memtotal, i++)
OfstophysLoop(nmd, offset, i) ==
    IF i < 3
    THEN LET p == nmd.pools[i]
         IN IF offset >= p.memtotal
            THEN OfstophysLoop(nmd, offset - p.memtotal, i + 1)
            ELSE vtophys(LutRead(p, offset \div p._objsize, NULL))
                   + (offset % p._objsize)
    ELSE 0

\* netmap_mem2_ofstophys(nmd, offset): 0 for an offset outside all pools
netmap_mem2_ofstophys(nmd, offset) == OfstophysLoop(nmd, offset, 0)

(***************************************************************************)
(* netmap_mem2.c: the ring fabric                                          *)
(***************************************************************************)
\* netmap_obj_malloc on pool i of the domain, logged
StMalloc(st, i, len, start, wild) ==
    LET Logged(m) ==
            [st |-> [st EXCEPT !.nmd.pools[i] = m.p,
                       !.log = Append(@, [ev |-> "malloc", pool |-> i,
                                          j |-> m.index,
                                          ret |-> IF m.vaddr = NULL
                                                  THEN 1 ELSE 0])],
             vaddr |-> m.vaddr, index |-> m.index, start |-> m.start]
    IN Logged(netmap_obj_malloc(st.nmd.pools[i], len, start, wild))

\* netmap_obj_free on pool i of the domain, logged
StFree(st, i, j) ==
    LET Logged(f) ==
            [st EXCEPT !.nmd.pools[i] = f.p,
               !.log = Append(@, [ev |-> "free", pool |-> i, j |-> j,
                                  ret |-> f.ret])]
    IN Logged(netmap_obj_free(st.nmd.pools[i], j))

\* netmap_obj_free_va on pool i of the domain, logged
StFreeVa(st, i, vaddr) ==
    LET Logged(f) ==
            [st EXCEPT !.nmd.pools[i] = f.p,
               !.log = Append(@, [ev |-> "free", pool |-> i, j |-> f.j,
                                  ret |-> f.ret])]
    IN Logged(netmap_obj_free_va(st.nmd.pools[i], vaddr))

\* netmap_mem_bufsize(n)
netmap_mem_bufsize(nmd) == nmd.pools[NETMAP_BUF_POOL]._objsize

\* netmap_ring_offset(n, v)
netmap_ring_offset(nmd, v) ==
    nmd.pools[NETMAP_IF_POOL].memtotal
      + netmap_obj_offset(nmd.pools[NETMAP_RING_POOL], v)

\* netmap_if_offset(n, v)
netmap_if_offset(nmd, v) == netmap_obj_offset(nmd.pools[NETMAP_IF_POOL], v)

\* a store through a uint16_t lvalue
U16(x) == x % 65536

ZeroSlot == [buf_idx |-> 0, len |-> 0, flags |-> 0]

RECURSIVE NewBufsCleanup(_, _, _)
\* while (i > 0) { i--; netmap_obj_free(p, slot[i].buf_idx); }
NewBufsCleanup(st, slot, i) ==
    IF i > 0
    THEN NewBufsCleanup(StFree(st, NETMAP_BUF_POOL, SlotAt(slot, i - 1).buf_idx),
                        slot, i - 1)
    ELSE st

RECURSIVE NewBufsLoop(_, _, _, _, _, _)
NewBufsLoop(st, slot, n, i, pos, wild) ==
    IF i < n
    THEN LET Allocated(m) ==
                IF m.vaddr = NULL
                THEN [st |-> NewBufsCleanup(m.st, slot, i),
                      slot |-> [j \in 1..Len(slot) |->
                                   IF j <= n THEN ZeroSlot ELSE slot[j]],
                      err |-> ENOMEM]
                ELSE NewBufsLoop(m.st,
                         SlotPut(slot, i,
                            [buf_idx |-> m.index,
                             len |-> U16(m.st.nmd.pools[NETMAP_BUF_POOL]._objsize),
                             flags |-> 0]),
                         n, i + 1, m.start, wild)
         IN Allocated(StMalloc(st, NETMAP_BUF_POOL, netmap_mem_bufsize(st.nmd),
                               pos, wild))
    ELSE [st |-> st, slot |-> slot, err |-> 0]

\* netmap_new_bufs(nmd, slot, n)
netmap_new_bufs(st, slot, n, wild) == NewBufsLoop(st, slot, n, 0, 0, wild)

\* netmap_mem_set_ring(nmd, slot, n, index)
netmap_mem_set_ring(nmd, slot, n, index) ==
    [j \in 1..Len(slot) |->
        IF j <= n
        THEN [buf_idx |-> index,
              len |-> U16(nmd.pools[NETMAP_BUF_POOL]._objsize), flags |-> 0]
        ELSE slot[j]]

\* netmap_free_buf(nmd, i)
netmap_free_buf(st, i) ==
    IF i < 2 \/ i >= st.nmd.pools[NETMAP_BUF_POOL].objtotal THEN st
    ELSE StFree(st, NETMAP_BUF_POOL, i)

RECURSIVE FreeBufsLoop(_, _, _, _)
FreeBufsLoop(st, slot, n, i) ==
    IF i < n
    THEN FreeBufsLoop(IF SlotAt(slot, i).buf_idx > 2
                      THEN netmap_free_buf(st, SlotAt(slot, i).buf_idx)
                      ELSE st,
                      slot, n, i + 1)
    ELSE st

\* netmap_free_bufs(nmd, slot, n)
netmap_free_bufs(st, slot, n) == FreeBufsLoop(st, slot, n, 0)

\* the krings of an adapter in the order of for_rx_tx(t), i = 0..nrings
KringOrder(na) ==
    [n \in 1..(2 * (NRings + 1)) |->
        <<na, (n - 1) \div (NRings + 1), (n - 1) % (NRings + 1)>>]

\* i != nma_get_nrings(na, t) || (na->na_flags & NAF_HOST_RINGS)
RealRing(st, k) == k[3] # NRings \/ st.host_rings[k[1]]

RECURSIVE FreeRingsLoop(_, _, _)
FreeRingsLoop(st, na, n) ==
    IF n <= Len(KringOrder(na))
    THEN LET k == KringOrder(na)[n]
             kr == st.kring[k]
             Freed(s) == FreeRingsLoop([s EXCEPT !.kring[k].ring = NULL,
                                                 !.ring[k] = NoRing],
                                       na, n + 1)
             Buffers(s) == Freed(StFreeVa(s, NETMAP_RING_POOL, kr.ring))
         IN IF kr.ring = NULL \/ kr.users > 0 \/ kr.needring
            THEN FreeRingsLoop(st, na, n + 1)
            ELSE IF RealRing(st, k)
            THEN Buffers(netmap_free_bufs(st, st.ring[k].slot,
                                          kr.nkr_num_slots))
            ELSE Buffers(st)
    ELSE st

\* variant that frees the rings NKR_NEEDRING is meant to keep
netmap_free_rings_NoNeedring(st, na) ==
    FreeRingsLoop([st EXCEPT !.kring =
                      [k \in KringIds |->
                          IF k[1] = na
                          THEN [st.kring[k] EXCEPT !.needring = FALSE]
                          ELSE st.kring[k]]],
                  na, 1)

\* netmap_free_rings(na)
netmap_free_rings(st, na) == FreeRingsLoop(st, na, 1)

RECURSIVE RingsCreateLoop(_, _, _, _)
RingsCreateLoop(st, na, n, wild) ==
    IF n <= Len(KringOrder(na))
    THEN LET k == KringOrder(na)[n]
             kr == st.kring[k]
             ndesc == kr.nkr_num_slots
             len == SizeofNetmapRing + ndesc * SizeofNetmapSlot
             \* cleanup: netmap_free_rings(na); return ENOMEM;
             Cleanup(s) == [st |-> netmap_free_rings(s, na), err |-> ENOMEM]
             \* ring info, then the next kring
             Info(s) ==
                 RingsCreateLoop([s EXCEPT !.ring[k].ringid = U16(kr.ring_id),
                                           !.ring[k].dir = U16(kr.tx)],
                                 na, n + 1, wild)
             Buffers(b) ==
                 IF b.err # 0
                 THEN Cleanup([b.st EXCEPT !.ring[k].slot = b.slot])
                 ELSE Info([b.st EXCEPT !.ring[k].slot = b.slot])
             Initialized(s, nmd, slot) ==
                 IF RealRing(s, k)
                 THEN Buffers(netmap_new_bufs(s, slot, ndesc, wild))
                 ELSE Info([s EXCEPT !.ring[k].slot =
                               netmap_mem_set_ring(nmd, slot, ndesc, 0)])
             Allocated(m) ==
                 IF m.vaddr = NULL THEN Cleanup(m.st)
                 ELSE Initialized(
                        [m.st EXCEPT
                           !.kring[k].ring = m.vaddr,
                           !.ring[k] =
                              [NoRing EXCEPT
                                 !.num_slots = ndesc,
                                 !.buf_ofs =
                                    (m.st.nmd.pools[NETMAP_IF_POOL].memtotal
                                       + m.st.nmd.pools[NETMAP_RING_POOL].memtotal)
                                    - netmap_ring_offset(m.st.nmd, m.vaddr),
                                 !.head = kr.rhead, !.cur = kr.rcur,
                                 !.tail = kr.rtail,
                                 !.nr_buf_size =
                                    U16(netmap_mem_bufsize(m.st.nmd)),
                                 !.slot = [j \in 1..ndesc |-> ZeroSlot]]],
                        m.st.nmd, [j \in 1..ndesc |-> ZeroSlot])
         IN IF kr.ring # NULL \/ (kr.users = 0 /\ ~kr.needring)
            THEN RingsCreateLoop(st, na, n + 1, wild)
            ELSE Allocated(StMalloc(st, NETMAP_RING_POOL, len, 0, wild))
    ELSE [st |-> st, err |-> 0]

\* netmap_mem2_rings_create(na)
netmap_mem2_rings_create(st, na, wild) == RingsCreateLoop(st, na, 1, wild)

\* netmap_mem2_rings_delete(na)
netmap_mem2_rings_delete(st, na) == netmap_free_rings(st, na)

\* a netmap_if in zeroed memory; ring_ofs holds the TX entries first
ZeroIf ==
    [ni_tx_rings |-> 0, ni_rx_rings |-> 0, ni_bufs_head |-> 0,
     ring_ofs |-> [n \in 1..(2 * (NRings + 1)) |-> 0]]

\* the rings a client has selected: [np_qfirst[t], np_qlast[t])
Selections ==
    {[qfirst |-> [t \in TxRx |-> 0], qlast |-> [t \in TxRx |-> NRings]],
     [qfirst |-> [t \in TxRx |-> NRings], qlast |-> [t \in TxRx |-> NRings + 1]],
     [qfirst |-> [t \in TxRx |-> 0], qlast |-> [t \in TxRx |-> NRings + 1]]}

\* netmap_mem2_if_new(na, priv)
netmap_mem2_if_new(st, na, np) ==
    LET ntx == NRings + 1
        nrx == NRings + 1
        len == SizeofNetmapIf + (ntx + nrx) * SizeofSsize
        Allocated(m) ==
            IF m.vaddr = NULL THEN [st |-> m.st, nifp |-> NULL]
            ELSE
            LET base == netmap_if_offset(m.st.nmd, m.vaddr)
                ofs(t, i) ==
                    IF m.st.kring[<<na, t, i>>].ring # NULL
                       /\ i >= np.qfirst[t] /\ i < np.qlast[t]
                    THEN netmap_ring_offset(m.st.nmd,
                             m.st.kring[<<na, t, i>>].ring) - base
                    ELSE 0
            IN [st |-> [m.st EXCEPT
                          !.ifmem[m.vaddr].ni_tx_rings = NRings,
                          !.ifmem[m.vaddr].ni_rx_rings = NRings,
                          !.ifmem[m.vaddr].ring_ofs =
                              [n \in 1..(ntx + nrx) |->
                                  IF n <= ntx THEN ofs(NR_TX, n - 1)
                                  ELSE ofs(NR_RX, n - 1 - ntx)]],
                nifp |-> m.vaddr]
    IN Allocated(StMalloc(st, NETMAP_IF_POOL, len, 0, NULL))

\* *p = v through the address of buffer idx; a store through an address
\* that belongs to no buffer lands outside the modelled memory
BufStore(st, idx, v) ==
    IF idx \in DOMAIN st.bufw THEN [st EXCEPT !.bufw[idx] = v] ELSE st

RECURSIVE ExtraAllocLoop(_, _, _, _, _, _)
ExtraAllocLoop(st, head, n, i, pos, wild) ==
    IF i < n
    THEN LET cur == head
             Allocated(m) ==
                 IF m.vaddr = NULL
                 THEN [st |-> m.st, head |-> cur, n |-> i]
                 ELSE ExtraAllocLoop(BufStore(m.st, m.index, cur), m.index, n,
                                     i + 1, m.start, wild)
         IN Allocated(StMalloc(st, NETMAP_BUF_POOL, netmap_mem_bufsize(st.nmd),
                               pos, wild))
    ELSE [st |-> st, head |-> head, n |-> i]

\* netmap_extra_alloc(na, head, n): the list head and the number allocated
netmap_extra_alloc(st, n, wild) == ExtraAllocLoop(st, 0, n, 0, 0, wild)

RECURSIVE ExtraFreeLoop(_, _)
ExtraFreeLoop(st, head) ==
    IF head >= 2 /\ head < st.nmd.pools[NETMAP_BUF_POOL].objtotal
    THEN LET cur == head
             next == st.bufw[head]
             Freed(st1) ==
                 IF st1.log[Len(st1.log)].ret # 0 THEN st1
                 ELSE ExtraFreeLoop(st1, next)
         IN Freed(StFree([st EXCEPT !.bufw[head] = 0], NETMAP_BUF_POOL, cur))
    ELSE st

\* netmap_extra_free(na, head)
netmap_extra_free(st, head) == ExtraFreeLoop(st, head)

\* netmap_mem2_if_delete(na, nifp)
netmap_mem2_if_delete(st, nifp) ==
    IF nifp = NULL THEN st
    ELSE IF st.ifmem[nifp].ni_bufs_head # 0
    THEN StFreeVa(netmap_extra_free(st, st.ifmem[nifp].ni_bufs_head),
                  NETMAP_IF_POOL, nifp)
    ELSE StFreeVa(st, NETMAP_IF_POOL, nifp)

\* history: the indices handed out and not freed since, after the first n
\* calls of a log
RECURSIVE HeldAfter(_, _, _)
HeldAfter(h, lg, n) ==
    IF n = 0 THEN h
    ELSE LET e == lg[n]
             h0 == HeldAfter(h, lg, n - 1)
         IN IF e.ret # 0 THEN h0
            ELSE IF e.ev = "malloc"
            THEN [h0 EXCEPT ![e.pool] = @ \cup {e.j}]
            ELSE [h0 EXCEPT ![e.pool] = @ \ {e.j}]

NoneHeld == [i \in Pools |-> {}]

\* a client that has not registered
NoPriv ==
    [np_active |-> FALSE, np_bound |-> FALSE, np_nifp |-> NULL,
     np_qfirst |-> [t \in TxRx |-> 0], np_qlast |-> [t \in TxRx |-> 0]]

(***************************************************************************)
(* netmap_mem2.c: the list of all existing allocators                      *)
(* The circular list is held as the sequence of its elements in next       *)
(* order that ends with the element netmap_last_mem_d points to            *)
(***************************************************************************)
\* width of nm_memid_t in bits (uint16_t; scaled down)
IdBits == 3

\* variant for an nm_memid_t that is one bit wider
MemId_Wider(x) == x % (2 ^ (IdBits + 1))

\* a store through an nm_memid_t lvalue
MemId(x) == x % (2 ^ IdBits)

\* the threads that take and drop references to the allocators
Threads == {"a", "b"}

\* no thread is between the unlock and the netmap_mem_delete of a put
NoneDeleting == [t \in Threads |-> <<>>]

\* the list after netmap_mem_init(): nm_mem alone, with one reference;
\* hidden is flags & NETMAP_MEM_HIDDEN, refs the threads that hold a
\* reference to the allocator (history)
MemListInit ==
    <<[nm_id |-> 1, refcount |-> 1, private |-> FALSE, hidden |-> FALSE,
       refs |-> {}]>>

\* *d = nm_blueprint in _netmap_mem_private_new
NewPrivate ==
    [nm_id |-> 0, refcount |-> 0, private |-> TRUE, hidden |-> FALSE,
     refs |-> {}]

RECURSIVE AssignIdLoop(_, _, _)
\* the do-while loop of nm_mem_assign_id_locked; scan is the position in
\* list of the element the pointer scan is at when the iteration starts
AssignIdLoop(list, nmd, scan) ==
    LET wrapped == MemId(list[scan].nm_id + 1)
        id == IF wrapped = 0 THEN 1 ELSE wrapped
        next == (scan % Len(list)) + 1
    IN  IF id # list[next].nm_id
        THEN [list |-> SubSeq(list, next, Len(list))
                       \o SubSeq(list, 1, next - 1)
                       \o <<[nmd EXCEPT !.nm_id = id, !.refcount = 1]>>,
              error |-> 0]
        ELSE IF next # Len(list) THEN AssignIdLoop(list, nmd, next)
        ELSE [list |-> list, error |-> ENOMEM]

\* variant that numbers the new allocator after netmap_last_mem_d and links
\* it there, whatever follows
nm_mem_assign_id_locked_Append(list, nmd) ==
    LET wrapped == MemId(list[Len(list)].nm_id + 1)
        id == IF wrapped = 0 THEN 1 ELSE wrapped
    IN  [list |-> list \o <<[nmd EXCEPT !.nm_id = id, !.refcount = 1]>>,
         error |-> 0]

\* nm_mem_assign_id_locked(nmd): on success nmd is linked and is the new
\* netmap_last_mem_d
nm_mem_assign_id_locked(list, nmd) == AssignIdLoop(list, nmd, Len(list))

\* nm_mem_assign_id(nmd)
nm_mem_assign_id(list, nmd) == nm_mem_assign_id_locked(list, nmd)

\* nm_mem_release_id(nmd), nmd being the element at position pos; when it
\* is netmap_last_mem_d, nmd->prev becomes netmap_last_mem_d
nm_mem_release_id(list, pos) ==
    SubSeq(list, 1, pos - 1) \o SubSeq(list, pos + 1, Len(list))

\* variant that takes a reference without counting it
netmap_mem_get_NoCount(list, pos) == list

\* __netmap_mem_get(nmd), nmd being the element at position pos
netmap_mem_get(list, pos) ==
    [list EXCEPT ![pos].refcount = list[pos].refcount + 1]

\* __netmap_mem_put(nmd) up to NM_MTX_UNLOCK: last tells whether
\* netmap_mem_delete(nmd) follows
netmap_mem_put_locked(list, pos) ==
    LET dropped == [list EXCEPT ![pos].refcount = list[pos].refcount - 1]
        last == dropped[pos].refcount = 0
    IN  [list |-> IF last THEN nm_mem_release_id(dropped, pos) ELSE dropped,
         last |-> last, nmd |-> dropped[pos]]

\* __netmap_mem_put(nmd): the last reference unlinks the allocator
\* (netmap_mem_delete then frees it)
netmap_mem_put(list, pos) == netmap_mem_put_locked(list, pos).list

RECURSIVE FindLoop(_, _, _)
\* the do-while loop of netmap_mem_find; pos is the position of nmd
FindLoop(list, id, pos) ==
    IF ~list[pos].hidden /\ list[pos].nm_id = id
    THEN [list |-> [list EXCEPT ![pos].refcount = list[pos].refcount + 1],
          pos |-> pos]
    ELSE LET next == (pos % Len(list)) + 1
         IN  IF next # Len(list) THEN FindLoop(list, id, next)
             ELSE [list |-> list, pos |-> 0]

\* netmap_mem_find(id): pos 0 stands for the NULL it returns
netmap_mem_find(list, id) == FindLoop(list, id, Len(list))

\* _netmap_mem_private_new(p, perr); cfgerr is what netmap_mem_config(d)
\* returns for the parameters p
netmap_mem_private_new(list, cfgerr) ==
    LET Assigned(a) ==
            IF a.error # 0 THEN [list |-> list, err |-> a.error, id |-> 0]
            ELSE IF cfgerr # 0
            THEN [list |-> nm_mem_release_id(a.list, Len(a.list)),
                  err |-> cfgerr, id |-> 0]
            ELSE [list |-> a.list, err |-> 0,
                  id |-> a.list[Len(a.list)].nm_id]
    IN  Assigned(nm_mem_assign_id(list, NewPrivate))

\* no txsync call is in progress and no wake-up is pending: pc is the point
\* the call has reached, k its TX kring, head, nm_i, nm_j, n and
\* peer_hwtail_lim its locals, woken the krings whose nm_notify has been
\* invoked and whose owner has not run its sync since
NoSyncs ==
    [pc |-> "idle", k |-> NoKring, head |-> 0, nm_i |-> 0, nm_j |-> 0,
     n |-> 0, peer_hwtail_lim |-> 0, woken |-> {},
     dirty |-> {}]

\* the two variants of the allocator: netmap_mem_global_ops and
\* netmap_mem_pt_guest_ops
Variants == {"global", "pt_guest"}

\* no mutex is held and every thread is between two operations: list_lock
\* is the holder of nm_mem_list_lock, nm_mtx the holder of the mutex
\* (NMA_LOCK) of the allocator of each variant, pc the point each thread has
\* reached, arg the nm_id its operation is about, pt_ifs the interfaces in
\* the passthrough map of the ptnetmap allocator
NoLocks ==
    [list_lock |-> "free", nm_mtx |-> [v \in Variants |-> "free"],
     pc |-> [t \in Threads |-> "idle"], arg |-> [t \in Threads |-> 0],
     pt_ifs |-> {}]

\* the allocator is not in use: the data plane runs on rings that exist
MemUnused ==
    /\ nm_mem = NewDomain
    /\ os_heap = {}
    /\ ifmem = <<>>
    /\ bufw = <<>>
    /\ priv = NoPriv
    /\ others = 0
    /\ host_rings = [na \in Adapters |-> TRUE]
    /\ mem_list = MemListInit
    /\ deleting = NoneDeleting
    /\ syncs = NoSyncs
    /\ locks = NoLocks
    /\ held = NoneHeld
    /\ log = <<>>


(***************************************************************************)
(* veth_netmap.h: data plane                                               *)
(***************************************************************************)
\* size of a buffer as netmap_new_bufs writes it into slot.len
SyncBufSize == 2048

\* what the sending application writes into a slot it submits
UserLen == 60

UserFlags == 1

RECURSIVE TxSyncLoop_BufIdxOnly(_, _, _, _, _, _, _, _, _)
\* variant of the loop that exchanges buf_idx only and leaves len and flags
TxSyncLoop_BufIdxOnly(ts, rs, nm_i, nm_j, n, head, lim, lim_peer, peer_hwtail_lim) ==
    IF nm_i # head /\ nm_j # peer_hwtail_lim
    THEN LET a == SlotAt(ts, nm_i)
             b == SlotAt(rs, nm_j)
             ts1 == SlotPut(ts, nm_i, [a EXCEPT !.buf_idx = b.buf_idx])
             rs1 == SlotPut(rs, nm_j, [b EXCEPT !.buf_idx = a.buf_idx])
         IN TxSyncLoop_BufIdxOnly(ts1, rs1, nm_next(nm_i, lim),
                       nm_next(nm_j, lim_peer),
                       n + 1, head, lim, lim_peer, peer_hwtail_lim)
    ELSE [ts |-> ts, rs |-> rs, nm_i |-> nm_i, nm_j |-> nm_j, n |-> n]

RECURSIVE TxSyncLoop(_, _, _, _, _, _, _, _, _)
\* the for loop of veth_netmap_txsync: exchange txring->slot[nm_i] and
\* rxring->slot[nm_j] while nm_i != head && nm_j != peer_hwtail_lim
TxSyncLoop(ts, rs, nm_i, nm_j, n, head, lim, lim_peer, peer_hwtail_lim) ==
    IF nm_i # head /\ nm_j # peer_hwtail_lim
    THEN LET tmp == SlotAt(ts, nm_i)
             ts1 == SlotPut(ts, nm_i, SlotAt(rs, nm_j))
             rs1 == SlotPut(rs, nm_j, tmp)
         IN TxSyncLoop(ts1, rs1, nm_next(nm_i, lim), nm_next(nm_j, lim_peer),
                       n + 1, head, lim, lim_peer, peer_hwtail_lim)
    ELSE [ts |-> ts, rs |-> rs, nm_i |-> nm_i, nm_j |-> nm_j, n |-> n]

\* what a notify callback can observe of the pair when it is invoked
Seen(kr, txk, rxk) ==
    [tx_hwcur |-> kr[txk].nr_hwcur, tx_hwtail |-> kr[txk].nr_hwtail,
     rx_hwcur |-> kr[rxk].nr_hwcur, rx_hwtail |-> kr[rxk].nr_hwtail]

\* variant of txsync that bounds the walk by the peer's nr_hwcur itself
\* instead of nm_prev(nr_hwcur)
veth_netmap_txsync_NoPrev(kr, rg, up, txk) ==
    IF ~up
    THEN [kring |-> kr, ring |-> rg, ret |-> 0, n |-> 0, notify |-> <<>>]
    ELSE
    LET rxk == kr[txk].pipe
        lim == kr[txk].nkr_num_slots - 1
        head == kr[txk].rhead
        lim_peer == kr[rxk].nkr_num_slots - 1
        nm_i0 == kr[txk].nr_hwcur
        nm_j0 == kr[rxk].nr_hwtail
        peer_hwtail_lim == kr[rxk].nr_hwcur
    IN  IF nm_i0 = head
        THEN [kring |-> kr, ring |-> rg, ret |-> 0, n |-> 0, notify |-> <<>>]
        ELSE
        LET l == TxSyncLoop(rg[txk].slot, rg[rxk].slot, nm_i0, nm_j0, 0,
                            head, lim, lim_peer, peer_hwtail_lim)
            rg1 == [rg EXCEPT ![txk].slot = l.ts, ![rxk].slot = l.rs]
            kr1 == [kr EXCEPT ![txk].nr_hwcur = l.nm_i]
            kr2 == [kr1 EXCEPT ![rxk].nr_hwtail =
                       IF l.nm_j > lim_peer THEN l.nm_j - (lim_peer + 1)
                                            ELSE l.nm_j]
            tl == kr2[txk].nr_hwtail + l.n
            kr3 == [kr2 EXCEPT ![txk].nr_hwtail =
                       IF tl > lim THEN tl - (lim + 1) ELSE tl]
        IN [kring |-> kr3, ring |-> rg1, ret |-> 0, n |-> l.n,
            notify |-> << [k |-> rxk, seen |-> Seen(kr3, txk, rxk)] >>]

\* variant of txsync that wakes the peer before the sender's nr_hwtail is
\* updated
veth_netmap_txsync_EarlyNotify(kr, rg, up, txk) ==
    IF ~up
    THEN [kring |-> kr, ring |-> rg, ret |-> 0, n |-> 0, notify |-> <<>>]
    ELSE
    LET rxk == kr[txk].pipe
        lim == kr[txk].nkr_num_slots - 1
        head == kr[txk].rhead
        lim_peer == kr[rxk].nkr_num_slots - 1
        nm_i0 == kr[txk].nr_hwcur
        nm_j0 == kr[rxk].nr_hwtail
        peer_hwtail_lim == nm_prev(kr[rxk].nr_hwcur, lim_peer)
    IN  IF nm_i0 = head
        THEN [kring |-> kr, ring |-> rg, ret |-> 0, n |-> 0, notify |-> <<>>]
        ELSE
        LET l == TxSyncLoop(rg[txk].slot, rg[rxk].slot, nm_i0, nm_j0, 0,
                            head, lim, lim_peer, peer_hwtail_lim)
            rg1 == [rg EXCEPT ![txk].slot = l.ts, ![rxk].slot = l.rs]
            kr1 == [kr EXCEPT ![txk].nr_hwcur = l.nm_i]
            kr2 == [kr1 EXCEPT ![rxk].nr_hwtail =
                       IF l.nm_j > lim_peer THEN l.nm_j - (lim_peer + 1)
                                            ELSE l.nm_j]
            tl == kr2[txk].nr_hwtail + l.n
            kr3 == [kr2 EXCEPT ![txk].nr_hwtail =
                       IF tl > lim THEN tl - (lim + 1) ELSE tl]
        IN [kring |-> kr3, ring |-> rg1, ret |-> 0, n |-> l.n,
            notify |-> << [k |-> rxk, seen |-> Seen(kr2, txk, rxk)] >>]

\* variant of txsync that does not advance the sender's nr_hwtail over the
\* slots it has handed to the peer
veth_netmap_txsync_NoReclaim(kr, rg, up, txk) ==
    IF ~up
    THEN [kring |-> kr, ring |-> rg, ret |-> 0, n |-> 0, notify |-> <<>>]
    ELSE
    LET rxk == kr[txk].pipe
        lim == kr[txk].nkr_num_slots - 1
        head == kr[txk].rhead
        lim_peer == kr[rxk].nkr_num_slots - 1
        nm_i0 == kr[txk].nr_hwcur
        nm_j0 == kr[rxk].nr_hwtail
        peer_hwtail_lim == nm_prev(kr[rxk].nr_hwcur, lim_peer)
    IN  IF nm_i0 = head
        THEN [kring |-> kr, ring |-> rg, ret |-> 0, n |-> 0, notify |-> <<>>]
        ELSE
        LET l == TxSyncLoop(rg[txk].slot, rg[rxk].slot, nm_i0, nm_j0, 0,
                            head, lim, lim_peer, peer_hwtail_lim)
            rg1 == [rg EXCEPT ![txk].slot = l.ts, ![rxk].slot = l.rs]
            kr1 == [kr EXCEPT ![txk].nr_hwcur = l.nm_i]
            kr2 == [kr1 EXCEPT ![rxk].nr_hwtail =
                       IF l.nm_j > lim_peer THEN l.nm_j - (lim_peer + 1)
                                            ELSE l.nm_j]
        IN [kring |-> kr2, ring |-> rg1, ret |-> 0, n |-> l.n,
            notify |-> << [k |-> rxk, seen |-> Seen(kr2, txk, rxk)] >>]

\* veth_netmap_txsync(txkring, flags)
veth_netmap_txsync(kr, rg, up, txk) ==
    IF ~up
    THEN [kring |-> kr, ring |-> rg, ret |-> 0, n |-> 0, notify |-> <<>>]
    ELSE
    LET rxk == kr[txk].pipe
        lim == kr[txk].nkr_num_slots - 1
        head == kr[txk].rhead
        lim_peer == kr[rxk].nkr_num_slots - 1
        nm_i0 == kr[txk].nr_hwcur
        nm_j0 == kr[rxk].nr_hwtail
        peer_hwtail_lim == nm_prev(kr[rxk].nr_hwcur, lim_peer)
    IN  IF nm_i0 = head
        THEN [kring |-> kr, ring |-> rg, ret |-> 0, n |-> 0, notify |-> <<>>]
        ELSE
        LET l == TxSyncLoop(rg[txk].slot, rg[rxk].slot, nm_i0, nm_j0, 0,
                            head, lim, lim_peer, peer_hwtail_lim)
            rg1 == [rg EXCEPT ![txk].slot = l.ts, ![rxk].slot = l.rs]
            kr1 == [kr EXCEPT ![txk].nr_hwcur = l.nm_i]
            kr2 == [kr1 EXCEPT ![rxk].nr_hwtail =
                       IF l.nm_j > lim_peer THEN l.nm_j - (lim_peer + 1)
                                            ELSE l.nm_j]
            tl == kr2[txk].nr_hwtail + l.n
            kr3 == [kr2 EXCEPT ![txk].nr_hwtail =
                       IF tl > lim THEN tl - (lim + 1) ELSE tl]
        IN [kring |-> kr3, ring |-> rg1, ret |-> 0, n |-> l.n,
            notify |-> << [k |-> rxk, seen |-> Seen(kr3, txk, rxk)] >>]

\* variant of rxsync that never notifies the peer
veth_netmap_rxsync_NoNotify(kr, rxk) ==
    [kring |-> [kr EXCEPT ![rxk].nr_hwcur = kr[rxk].rhead], ret |-> 0,
     notify |-> <<>>]

\* variant of rxsync that notifies the peer whether or not nr_hwcur moves
veth_netmap_rxsync_AlwaysNotify(kr, rxk) ==
    LET kr1 == [kr EXCEPT ![rxk].nr_hwcur = kr[rxk].rhead]
    IN [kring |-> kr1, ret |-> 0,
        notify |-> << [k |-> kr[rxk].pipe,
                       seen |-> Seen(kr1, kr[rxk].pipe, rxk)] >>]

\* veth_netmap_rxsync(rxkring, flags)
veth_netmap_rxsync(kr, rxk) ==
    LET head == kr[rxk].rhead
        oldhwcur == kr[rxk].nr_hwcur
        txk == kr[rxk].pipe
        kr1 == [kr EXCEPT ![rxk].nr_hwcur = head]
    IN [kring |-> kr1, ret |-> 0,
        notify |-> IF oldhwcur # head
                   THEN << [k |-> txk, seen |-> Seen(kr1, txk, rxk)] >>
                   ELSE <<>>]

\* a kring on which the netmap core may run the sync callbacks
Bound(k) == tx_rings[k[1]] /\ kring[k].users > 0 /\ kring[k].ring # NULL

TxSync(k) ==
    /\ k[2] = NR_TX /\ Bound(k) /\ kring[k].pipe # NoKring
    /\ LET r == veth_netmap_txsync(kring, ring, carrier[k[1]], k)
       IN /\ kring' = r.kring
          /\ ring' = r.ring
          /\ call' = [op |-> "txsync", k |-> k, ret |-> r.ret, n |-> r.n,
                      notify |-> r.notify]
    /\ UNCHANGED <<tx_rings, carrier, peer, memVars>>

RxSync(k) ==
    /\ k[2] = NR_RX /\ Bound(k) /\ kring[k].pipe # NoKring
    /\ LET r == veth_netmap_rxsync(kring, k)
       IN /\ kring' = r.kring
          /\ call' = [op |-> "rxsync", k |-> k, ret |-> r.ret, n |-> 0,
                      notify |-> r.notify]
    /\ UNCHANGED <<tx_rings, ring, carrier, peer, memVars>>

\* the sending application fills the slot at head and advances head; the
\* core copies ring->head into kring->rhead before it calls nm_sync
UserSubmit(k) ==
    /\ k[2] = NR_TX /\ Bound(k)
    /\ kring[k].rhead # kring[k].nr_hwtail
    /\ LET h == kring[k].rhead
           s == SlotAt(ring[k].slot, h)
       IN /\ ring' = [ring EXCEPT ![k].slot =
                  SlotPut(@, h, [s EXCEPT !.len = UserLen, !.flags = UserFlags])]
          /\ kring' = [kring EXCEPT ![k].rhead =
                  nm_next(h, kring[k].nkr_num_slots - 1)]
    /\ call' = [NoCall EXCEPT !.op = "submit", !.k = k]
    /\ UNCHANGED <<tx_rings, carrier, peer, memVars>>

\* the receiving application releases the slot at head
UserRelease(k) ==
    /\ k[2] = NR_RX /\ Bound(k)
    /\ kring[k].rhead # kring[k].nr_hwtail
    /\ kring' = [kring EXCEPT ![k].rhead =
                  nm_next(kring[k].rhead, kring[k].nkr_num_slots - 1)]
    /\ call' = [NoCall EXCEPT !.op = "release", !.k = k]
    /\ UNCHANGED <<tx_rings, ring, carrier, peer, memVars>>

\* the link goes up or down (netif_carrier_on / netif_carrier_off)
SetCarrier(na) ==
    /\ carrier' = [carrier EXCEPT ![na] = ~@]
    /\ call' = [NoCall EXCEPT !.op = "carrier"]
    /\ UNCHANGED <<tx_rings, kring, ring, peer, memVars>>

\* buffers of a ring as netmap_new_bufs fills them, starting at index first
FreshSlots(first) ==
    [j \in 1..NumDesc |->
        [buf_idx |-> first + j - 1, len |-> SyncBufSize, flags |-> 0]]

\* a veth pair after krings_create and register-on: adapter s has its TX
\* ring 0 bound, its peer has its RX ring 0 bound
InitSync ==
    \E s \in Adapters, sw \in BOOLEAN :
      LET txk == <<s, NR_TX, 0>>
          rxk == <<PeerOf(s), NR_RX, 0>>
          linked == [k \in KringIds |->
              [NewKring(k[2], k[3]) EXCEPT
                 !.pipe = IF k[3] < NRings
                          THEN <<PeerOf(k[1]), nm_txrx_swap(k[2]), k[3]>>
                          ELSE NoKring]]
      IN /\ tx_rings = [na \in Adapters |-> TRUE]
         /\ kring = [linked EXCEPT
               ![txk].users = 1, ![txk].nr_mode = NKR_NETMAP_ON,
               ![txk].nr_pending_mode = NKR_NETMAP_ON,
               ![txk].needring = TRUE, ![txk].ring = 1,
               ![rxk].users = 1, ![rxk].nr_mode = NKR_NETMAP_ON,
               ![rxk].nr_pending_mode = NKR_NETMAP_ON,
               ![rxk].needring = TRUE, ![rxk].ring = 2]
         /\ ring = [k \in KringIds |->
               IF k = txk
               THEN [NoRing EXCEPT !.num_slots = NumDesc, !.dir = NR_TX,
                       !.tail = NumDesc - 1, !.nr_buf_size = SyncBufSize,
                       !.slot = FreshSlots(IF sw THEN 2 ELSE 2 + NumDesc)]
               ELSE IF k = rxk
               THEN [NoRing EXCEPT !.num_slots = NumDesc, !.dir = NR_RX,
                       !.nr_buf_size = SyncBufSize,
                       !.slot = FreshSlots(IF sw THEN 2 + NumDesc ELSE 2)]
               ELSE NoRing]
         /\ carrier = [na \in Adapters |-> TRUE]
         /\ peer = [na \in Adapters |-> TRUE]
         /\ call = NoCall
         /\ MemUnused

NextSync ==
    \/ \E k \in KringIds : TxSync(k)
    \/ \E k \in KringIds : RxSync(k)
    \/ \E k \in KringIds : UserSubmit(k)
    \/ \E k \in KringIds : UserRelease(k)
    \/ \E na \in Adapters : SetCarrier(na)

vars == <<tx_rings, kring, ring, carrier, peer, call,
          nm_mem, os_heap, ifmem, bufw, priv, others, host_rings, mem_list,
          deleting, syncs, locks, held, log>>

SpecSync == InitSync /\ [][NextSync]_vars

(***************************************************************************)
(* The data plane step by step: the sender's txsync advances from one      *)
(* access of the shared krings and rings to the next, and the receiver's   *)
(* release and rxsync run between any two of its steps                     *)
(***************************************************************************)
\* variant of the bound of the walk that ignores the peer's nr_hwcur and
\* lets the walk go once around the RX ring
PeerHwtailLim_Around(kr, rxk) ==
    nm_prev(kr[rxk].nr_hwtail, kr[rxk].nkr_num_slots - 1)

\* the last RX slot txsync may not fill, read after mb()
PeerHwtailLim(kr, rxk) ==
    nm_prev(kr[rxk].nr_hwcur, kr[rxk].nkr_num_slots - 1)

\* variant of the barrier that orders nothing
smp_mb_None(s) == s

\* a full barrier: the stores the caller has issued are visible to the other
\* CPUs before anything it does next
smp_mb(s) == [s EXCEPT !.dirty = {}]

mb(s) == [s EXCEPT !.dirty = {}]

\* the txsync call syncs describes advances by one step: from its entry to
\* the read of the indices, over mb() to the read of rxkring->nr_hwcur, one
\* iteration of the loop at a time, then the write of nr_hwcur, smp_mb(),
\* the write of rxkring->nr_hwtail, smp_mb(), and the reclaim and notify.
\* The stores to the slots may reach the other CPUs as late as the next
\* barrier (dirty: the RX slots whose old record may still be seen), the
\* store to nr_hwtail as early as it is issued.
TxSyncStep(kr, rg, up, s) ==
    LET txk == s.k
        rxk == kr[txk].pipe
        lim == kr[txk].nkr_num_slots - 1
        lim_peer == kr[rxk].nkr_num_slots - 1
        Go(kr1, rg1, s1) ==
            [kring |-> kr1, ring |-> rg1, syncs |-> s1, done |-> FALSE,
             n |-> 0, notify |-> <<>>]
        Return(kr1, n, notify) ==
            [kring |-> kr1, ring |-> rg,
             syncs |-> [NoSyncs EXCEPT !.woken = s.woken, !.dirty = s.dirty],
             done |-> TRUE, n |-> n, notify |-> notify]
    IN  CASE s.pc = "entry" ->
               IF ~up THEN Return(kr, 0, <<>>)
               ELSE Go(kr, rg, [s EXCEPT !.pc = "mb",
                                         !.head = kr[txk].rhead,
                                         !.nm_i = kr[txk].nr_hwcur,
                                         !.nm_j = kr[rxk].nr_hwtail])
          [] s.pc = "mb" ->
               IF s.nm_i # s.head
               THEN Go(kr, rg, [mb(s) EXCEPT !.pc = "loop", !.n = 0,
                                   !.peer_hwtail_lim =
                                       PeerHwtailLim(kr, rxk)])
               ELSE Return(kr, 0, <<>>)
          [] s.pc = "loop" ->
               IF s.nm_i # s.head /\ s.nm_j # s.peer_hwtail_lim
               THEN LET tmp == SlotAt(rg[txk].slot, s.nm_i)
                        rg1 == [rg EXCEPT
                                  ![txk].slot = SlotPut(@, s.nm_i,
                                                  SlotAt(rg[rxk].slot, s.nm_j)),
                                  ![rxk].slot = SlotPut(@, s.nm_j, tmp)]
                    IN Go(kr, rg1, [s EXCEPT !.nm_i = nm_next(s.nm_i, lim),
                                              !.nm_j = nm_next(s.nm_j, lim_peer),
                                              !.n = s.n + 1,
                                              !.dirty = @ \cup {s.nm_j}])
               ELSE Go([kr EXCEPT ![txk].nr_hwcur = s.nm_i], rg,
                       [s EXCEPT !.pc = "smp_mb_slots"])
          [] s.pc = "smp_mb_slots" ->
               Go(kr, rg, [smp_mb(s) EXCEPT !.pc = "hwtail"])
          [] s.pc = "hwtail" ->
               Go([kr EXCEPT ![rxk].nr_hwtail =
                      IF s.nm_j > lim_peer THEN s.nm_j - (lim_peer + 1)
                      ELSE s.nm_j],
                  rg, [s EXCEPT !.pc = "smp_mb_hwtail"])
          [] s.pc = "smp_mb_hwtail" ->
               Go(kr, rg, [smp_mb(s) EXCEPT !.pc = "reclaim"])
          [] s.pc = "reclaim" ->
               LET tl == kr[txk].nr_hwtail + s.n
                   kr1 == [kr EXCEPT ![txk].nr_hwtail =
                              IF tl > lim THEN tl - (lim + 1) ELSE tl]
               IN Return(kr1, s.n,
                         << [k |-> rxk, seen |-> Seen(kr1, txk, rxk)] >>)

\* the krings a list of notifications wakes
Woken(notify) == {notify[i].k : i \in 1..Len(notify)}

\* the sender enters txsync on TX kring k or takes the next step of the
\* call; the wake-up of k is consumed when the call begins
StepTx(k) ==
    /\ k[2] = NR_TX /\ Bound(k) /\ kring[k].pipe # NoKring
    /\ syncs.pc = "idle" \/ syncs.k = k
    /\ LET s == IF syncs.pc = "idle"
                THEN [syncs EXCEPT !.pc = "entry", !.k = k,
                                   !.woken = syncs.woken \ {k}]
                ELSE syncs
           r == TxSyncStep(kring, ring, carrier[k[1]], s)
       IN /\ kring' = r.kring
          /\ ring' = r.ring
          /\ syncs' = [r.syncs EXCEPT !.woken = @ \cup Woken(r.notify)]
          /\ call' = [op |-> IF r.done THEN "txsync" ELSE r.syncs.pc,
                      k |-> k, ret |-> 0, n |-> r.n, notify |-> r.notify]
    /\ UNCHANGED <<tx_rings, carrier, peer, nm_mem, os_heap, ifmem, bufw, priv,
                   others, host_rings, mem_list, deleting, locks, held, log>>

\* the receiver runs rxsync on RX kring k
StepRx(k) ==
    /\ k[2] = NR_RX /\ Bound(k) /\ kring[k].pipe # NoKring
    /\ LET r == veth_netmap_rxsync(kring, k)
       IN /\ kring' = r.kring
          /\ syncs' = [syncs EXCEPT
                          !.woken = (@ \ {k}) \cup Woken(r.notify)]
          /\ call' = [op |-> "rxsync", k |-> k, ret |-> r.ret, n |-> 0,
                      notify |-> r.notify]
    /\ UNCHANGED <<tx_rings, ring, carrier, peer, nm_mem, os_heap, ifmem, bufw,
                   priv, others, host_rings, mem_list, deleting, locks, held, log>>

\* the sending application submits a slot; rhead follows ring->head when
\* the next txsync begins, so not while one is in progress
StepSubmit(k) == syncs.pc = "idle" /\ UserSubmit(k)

NextStep ==
    \/ \E k \in KringIds : StepTx(k)
    \/ \E k \in KringIds : StepRx(k)
    \/ \E k \in KringIds : StepSubmit(k)
    \/ \E k \in KringIds : UserRelease(k)
    \/ \E na \in Adapters : SetCarrier(na)

SpecStep == InitSync /\ [][NextStep]_vars

(***************************************************************************)
(* The peer pair with its notifications: the carrier stays up, each side   *)
(* runs its sync when it has been notified (the sender also after it has   *)
(* submitted), and the receiver releases every delivered slot when it runs *)
(***************************************************************************)
\* the sender begins txsync on TX kring k once it has been notified, and
\* takes the steps of the call it has begun
LiveTx(k) ==
    /\ syncs.pc # "idle" \/ k \in syncs.woken
    /\ StepTx(k)

\* the receiver, notified, releases every delivered slot and runs rxsync
LiveRx(k) ==
    /\ k[2] = NR_RX /\ Bound(k) /\ kring[k].pipe # NoKring
    /\ k \in syncs.woken
    /\ LET kr == [kring EXCEPT ![k].rhead = kring[k].nr_hwtail]
           r == veth_netmap_rxsync(kr, k)
       IN /\ kring' = r.kring
          /\ syncs' = [syncs EXCEPT
                          !.woken = (@ \ {k}) \cup Woken(r.notify)]
          /\ call' = [op |-> "rxsync", k |-> k, ret |-> r.ret, n |-> 0,
                      notify |-> r.notify]
    /\ UNCHANGED <<tx_rings, ring, carrier, peer, nm_mem, os_heap, ifmem, bufw,
                   priv, others, host_rings, mem_list, deleting, locks, held, log>>

\* the sending application submits a slot and will call txsync
LiveSubmit(k) ==
    /\ k[2] = NR_TX /\ Bound(k) /\ syncs.pc = "idle"
    /\ kring[k].rhead # kring[k].nr_hwtail
    /\ LET h == kring[k].rhead
           s == SlotAt(ring[k].slot, h)
       IN /\ ring' = [ring EXCEPT ![k].slot =
                  SlotPut(@, h, [s EXCEPT !.len = UserLen, !.flags = UserFlags])]
          /\ kring' = [kring EXCEPT ![k].rhead =
                  nm_next(h, kring[k].nkr_num_slots - 1)]
    /\ syncs' = [syncs EXCEPT !.woken = @ \cup {k}]
    /\ call' = [NoCall EXCEPT !.op = "submit", !.k = k]
    /\ UNCHANGED <<tx_rings, carrier, peer, nm_mem, os_heap, ifmem, bufw,
                   priv, others, host_rings, mem_list, deleting, locks, held, log>>

NextLive ==
    \/ \E k \in KringIds : LiveTx(k)
    \/ \E k \in KringIds : LiveRx(k)
    \/ \E k \in KringIds : LiveSubmit(k)

\* a notified side is not kept from running for ever
LiveFairness ==
    \A k \in KringIds : WF_vars(LiveTx(k)) /\ WF_vars(LiveRx(k))

SpecLive == InitSync /\ [][NextLive]_vars /\ LiveFairness

(***************************************************************************)
(* Properties of the data plane                                            *)
(***************************************************************************)
Min(a, b) == IF a < b THEN a ELSE b

\* number of slots of the two rings that hold the record rec
SlotCount(rg, txk, rxk, rec) ==
    Cardinality({j \in DOMAIN rg[txk].slot : rg[txk].slot[j] = rec})
  + Cardinality({j \in DOMAIN rg[rxk].slot : rg[rxk].slot[j] = rec})

SlotRecords(rg, txk, rxk) ==
    {rg[txk].slot[j] : j \in DOMAIN rg[txk].slot}
      \cup {rg[rxk].slot[j] : j \in DOMAIN rg[rxk].slot}

\* C1: over a txsync call on a cross-linked TX kring and its peer RX kring,
\* the multiset of whole slot records (buf_idx, len, flags) of the two rings
\* together is unchanged: records are exchanged, none duplicated or lost.
C1_SlotMultisetPreserved ==
    [][call'.op = "txsync" =>
         LET txk == call'.k
             rxk == kring[txk].pipe
         IN \A rec \in SlotRecords(ring, txk, rxk)
                         \cup SlotRecords(ring', txk, rxk) :
               SlotCount(ring', txk, rxk, rec) = SlotCount(ring, txk, rxk, rec)
      ]_vars

\* a txsync has just exchanged two slots whose records differ in len and flags
C1_Witness ==
    /\ call.op = "txsync" /\ call.n >= 2
    /\ \E j \in 1..NumDesc :
          /\ ring[kring[call.k].pipe].slot[j].len = UserLen
          /\ ring[call.k].slot[j].len = SyncBufSize

\* C2: with carrier up txsync moves exactly k = min(pending, space) slots:
\* t.nr_hwcur, r.nr_hwtail and t.nr_hwtail advance by k modulo the ring size,
\* the TX slot at old t.nr_hwcur + j and the RX slot at old r.nr_hwtail + j
\* are exchanged for j in 0..k-1, and no other slot changes.
C2_MovesMinPendingSpace ==
    [][(call'.op = "txsync" /\ carrier[call'.k[1]]) =>
         LET txk == call'.k
             rxk == kring[txk].pipe
             t == kring[txk]
             r == kring[rxk]
             Nt == t.nkr_num_slots
             Nr == r.nkr_num_slots
             pending == (t.rhead - t.nr_hwcur + Nt) % Nt
             space == (nm_prev(r.nr_hwcur, Nr - 1) - r.nr_hwtail + Nr) % Nr
             k == Min(pending, space)
             moved_t == {(t.nr_hwcur + j) % Nt : j \in 0..(k - 1)}
             moved_r == {(r.nr_hwtail + j) % Nr : j \in 0..(k - 1)}
         IN /\ call'.n = k
            /\ kring'[txk].nr_hwcur = (t.nr_hwcur + k) % Nt
            /\ kring'[rxk].nr_hwtail = (r.nr_hwtail + k) % Nr
            /\ kring'[txk].nr_hwtail = (t.nr_hwtail + k) % Nt
            /\ \A j \in 0..(k - 1) :
                 /\ SlotAt(ring'[txk].slot, (t.nr_hwcur + j) % Nt)
                      = SlotAt(ring[rxk].slot, (r.nr_hwtail + j) % Nr)
                 /\ SlotAt(ring'[rxk].slot, (r.nr_hwtail + j) % Nr)
                      = SlotAt(ring[txk].slot, (t.nr_hwcur + j) % Nt)
            /\ \A i \in 0..(Nt - 1) : i \notin moved_t =>
                 SlotAt(ring'[txk].slot, i) = SlotAt(ring[txk].slot, i)
            /\ \A i \in 0..(Nr - 1) : i \notin moved_r =>
                 SlotAt(ring'[rxk].slot, i) = SlotAt(ring[rxk].slot, i)
            /\ \A o \in KringIds \ {txk, rxk} : ring'[o] = ring[o]
      ]_vars

\* a txsync moved fewer slots than were pending because the peer ran out of
\* space, and the peer's nr_hwtail wrapped around
C2_Witness ==
    /\ call.op = "txsync" /\ carrier[call.k[1]] /\ call.n = 1
    /\ kring[call.k].nr_hwcur # kring[call.k].rhead
    /\ kring[kring[call.k].pipe].nr_hwtail = 0
    /\ kring[kring[call.k].pipe].nr_hwcur = 1

\* the notify callbacks of a call saw the krings as the call left them
NotifiedAfterUpdates(c, kr) ==
    \A j \in DOMAIN c.notify :
        c.notify[j].seen = Seen(kr, c.k, kr[c.k].pipe)

\* C3 as stated: every txsync call with carrier up, also one that finds
\* t.nr_hwcur = t.rhead, notifies the peer RX kring exactly once, after its
\* index updates; with carrier down it notifies nobody and changes nothing.
C3_Original ==
    [][call'.op = "txsync" =>
         IF carrier[call'.k[1]]
         THEN /\ Len(call'.notify) = 1
              /\ call'.notify[1].k = kring[call'.k].pipe
              /\ NotifiedAfterUpdates(call', kring')
         ELSE /\ call'.notify = <<>>
              /\ kring' = kring /\ ring' = ring
      ]_vars

\* C3 amended: a txsync call with carrier up that finds t.nr_hwcur # t.rhead
\* notifies the peer RX kring exactly once, after its index updates; a call
\* that finds t.nr_hwcur = t.rhead, or the carrier down, notifies nobody and
\* changes no kring field and no slot.
C3_NotifyOnceWhenPending ==
    [][call'.op = "txsync" =>
         IF carrier[call'.k[1]] /\ kring[call'.k].nr_hwcur # kring[call'.k].rhead
         THEN /\ Len(call'.notify) = 1
              /\ call'.notify[1].k = kring[call'.k].pipe
              /\ NotifiedAfterUpdates(call', kring')
         ELSE /\ call'.notify = <<>>
              /\ kring' = kring /\ ring' = ring
      ]_vars

\* a txsync that moved slots has notified the peer once
C3_Witness ==
    /\ call.op = "txsync" /\ carrier[call.k[1]]
    /\ call.n >= 1 /\ Len(call.notify) = 1

\* C25: rxsync on an RX kring r sets r.nr_hwcur to r.rhead and changes
\* nothing else: no slot, not r.nr_hwtail, no field of the peer kring or of
\* any other kring; it invokes nm_notify of the peer TX kring once when the
\* old r.nr_hwcur differed from r.rhead and not at all when they were equal;
\* it returns 0.
C25_RxSyncFrame ==
    [][call'.op = "rxsync" =>
         LET rxk == call'.k
         IN /\ kring' = [kring EXCEPT ![rxk].nr_hwcur = kring[rxk].rhead]
            /\ ring' = ring
            /\ call'.ret = 0
            /\ IF kring[rxk].nr_hwcur # kring[rxk].rhead
               THEN /\ Len(call'.notify) = 1
                    /\ call'.notify[1].k = kring[rxk].pipe
               ELSE call'.notify = <<>>
      ]_vars

\* an rxsync has released slots the sender had delivered and has notified
\* the peer TX kring
C25_Witness ==
    /\ call.op = "rxsync" /\ Len(call.notify) = 1
    /\ call.notify[1].k[2] = NR_TX
    /\ kring[call.k].nr_hwcur = kring[call.k].rhead
    /\ kring[call.k].nr_hwcur # 0

\* the RX slots of kring rxk delivered and not yet released:
\* [nr_hwcur, nr_hwtail)
DeliveredSlots(kr, rxk) ==
    LET num == kr[rxk].nkr_num_slots
    IN {(kr[rxk].nr_hwcur + d) % num :
           d \in 0..(((kr[rxk].nr_hwtail - kr[rxk].nr_hwcur) % num) - 1)}

\* C26: under any interleaving of the steps of the sender's txsync with the
\* receiver's release and rxsync, a swap never touches an RX slot in the
\* delivered and unreleased range [r.nr_hwcur, r.nr_hwtail), the write of
\* r.nr_hwtail never moves it beyond prev(r.nr_hwcur), and nr_hwcur and
\* nr_hwtail of both krings stay within [0, num_slots).
C26_SwapOutsideDelivered ==
    [][syncs.pc # "idle" \/ syncs'.pc # "idle" =>
         LET txk == IF syncs.pc # "idle" THEN syncs.k ELSE syncs'.k
             rxk == kring[txk].pipe
             num == kring[rxk].nkr_num_slots
         IN /\ syncs'.n = syncs.n + 1 =>
                  syncs.nm_j \notin DeliveredSlots(kring, rxk)
            /\ kring'[rxk].nr_hwtail # kring[rxk].nr_hwtail =>
                  (kring'[rxk].nr_hwtail - kring[rxk].nr_hwtail) % num
                    <= (nm_prev(kring[rxk].nr_hwcur, num - 1)
                          - kring[rxk].nr_hwtail) % num
            /\ \A k \in {txk, rxk} :
                  /\ kring'[k].nr_hwcur \in 0..(kring'[k].nkr_num_slots - 1)
                  /\ kring'[k].nr_hwtail \in 0..(kring'[k].nkr_num_slots - 1)
      ]_vars

\* a txsync has swapped a slot, the receiver has run rxsync since, and it
\* still holds delivered slots
C26_Witness ==
    /\ syncs.pc = "loop" /\ syncs.n >= 1
    /\ call.op = "rxsync" /\ call.k = kring[syncs.k].pipe
    /\ kring[call.k].nr_hwcur # kring[call.k].nr_hwtail

\* the RX slots the txsync call in its loop may still swap: from nm_j up to
\* the bound of the walk
WalkSlots(kr, s) ==
    LET num == kr[kr[s.k].pipe].nkr_num_slots
    IN IF s.pc # "loop" THEN {}
       ELSE {(s.nm_j + d) % num :
                d \in 0..(((s.peer_hwtail_lim - s.nm_j) % num) - 1)}

\* what a receiver that reads nr_hwtail and then the slots up to it finds:
\* every slot in [nr_hwcur, nr_hwtail) holds a record the sender submitted,
\* its store has reached the receiver, and the call in progress will not
\* swap it out
DeliveredVisible ==
    \A rxk \in KringIds :
       (rxk[2] = NR_RX /\ Bound(rxk)) =>
          \A j \in DeliveredSlots(kring, rxk) :
             /\ j \notin syncs.dirty
             /\ j \notin WalkSlots(kring, syncs)
             /\ SlotAt(ring[rxk].slot, j).len = UserLen
             /\ SlotAt(ring[rxk].slot, j).flags = UserFlags

\* C27: within one txsync call r.nr_hwtail is written after all the swaps
\* of the call and after the barrier that follows them, so at every
\* interleaving point the slots in [r.nr_hwcur, r.nr_hwtail) hold the
\* records the sender swapped in and none that is about to be swapped out;
\* the read of r.nr_hwcur that bounds the walk comes right after a barrier.
C27_PublishAfterSwaps ==
    /\ []DeliveredVisible
    /\ [][/\ (syncs.pc # "idle"
               /\ kring'[kring[syncs.k].pipe].nr_hwtail
                    # kring[kring[syncs.k].pipe].nr_hwtail)
              => /\ syncs.pc = "hwtail" /\ syncs.dirty = {}
                 /\ ring' = ring
          /\ (syncs'.pc = "hwtail" /\ syncs.pc # "hwtail")
              => syncs.pc = "smp_mb_slots"
          /\ (syncs'.pc = "smp_mb_slots" /\ syncs.pc # "smp_mb_slots")
              => /\ syncs.pc = "loop"
                 /\ syncs.nm_i = syncs.head
                      \/ syncs.nm_j = syncs.peer_hwtail_lim
          /\ (syncs'.dirty # syncs.dirty /\ syncs'.dirty # {})
              => syncs.pc = "loop"
          /\ (syncs'.pc = "loop" /\ syncs.pc # "loop")
              => /\ syncs.pc = "mb"
                 /\ syncs'.peer_hwtail_lim =
                        PeerHwtailLim(kring, kring[syncs.k].pipe)
       ]_vars

\* a txsync has just published nr_hwtail over the slots it swapped while the
\* receiver still holds a slot of an earlier call
C27_Witness ==
    /\ syncs.pc = "smp_mb_hwtail" /\ syncs.n >= 1
    /\ Cardinality(DeliveredSlots(kring, kring[syncs.k].pipe)) >= 2

\* the TX slots of kring txk submitted and not yet delivered:
\* [nr_hwcur, rhead)
PendingSlots(kr, txk) ==
    LET num == kr[txk].nkr_num_slots
    IN {(kr[txk].nr_hwcur + d) % num :
           d \in 0..(((kr[txk].rhead - kr[txk].nr_hwcur) % num) - 1)}

\* the TX krings of the hardware rings
TxKrings == {k \in KringIds : k[2] = NR_TX /\ k[3] < NRings}

\* C28 as stated: with the carrier up, from any state with
\* t.nr_hwcur # t.rhead a state with t.nr_hwcur = t.rhead is eventually
\* reached.
C28_Original ==
    \A k \in TxKrings :
       (Bound(k) /\ kring[k].nr_hwcur # kring[k].rhead)
          ~> (kring[k].nr_hwcur = kring[k].rhead)

\* C28: with the carrier up, the receiver releasing what was delivered and
\* each side running its sync when notified, every slot the sender has
\* submitted is eventually delivered: a slot in [t.nr_hwcur, t.rhead)
\* eventually leaves that range, also when txsync found the peer ring full;
\* and from a state with t.nr_hwcur # t.rhead a state with
\* t.nr_hwcur = t.rhead is eventually reached unless the sender submits
\* another slot first.
C28_EverySlotDelivered ==
    \A k \in TxKrings : \A i \in 0..(NumDesc - 1) :
       /\ (Bound(k) /\ i \in PendingSlots(kring, k))
             ~> (i \notin PendingSlots(kring, k))
       /\ (Bound(k) /\ kring[k].nr_hwcur # kring[k].rhead
              /\ kring[k].rhead = i)
             ~> (kring[k].nr_hwcur = kring[k].rhead \/ kring[k].rhead # i)

\* a txsync found the peer ring full and returned without moving a slot
C28_Witness ==
    /\ call.op = "txsync" /\ call.n = 0 /\ Len(call.notify) = 1
    /\ kring[call.k].nr_hwcur # kring[call.k].rhead
    /\ syncs.pc = "idle"

(***************************************************************************)
(* The allocator and the ring fabric as a state machine.  One client of    *)
(* adapter 0 and other users drive the global domain nm_mem: the sysctl    *)
(* parameters, and the calls the netmap core makes when the client         *)
(* registers and unregisters (finalize, bind krings, rings_create, if_new, *)
(* extra_alloc ... rings_delete, if_delete, deref).                        *)
(***************************************************************************)
\* most users of the domain besides the client
MaxOthers == 1

\* the extra buffers a client asks for
MaxExtra == 2

\* the adapter of the client
MemAdapter == 0

Param(size, num) == [size |-> size, num |-> num]

\* values of the sysctl parameters (size and number of the objects of the
\* IF, RING and BUF pools)
ParamSets ==
    << <<Param(1024, 10), Param(1024, 4), Param(2048, 16)>>,
       <<Param(1024, 10), Param(1024, 4), Param(2048, 4)>>,
       <<Param(1024, 10), Param(1024, 4), Param(128, 33)>>,
       <<Param(1024, 10), Param(1024, 4), Param(65536, 6)>>,
       <<Param(1024, 10), Param(256, 2), Param(2048, 16)>>,
       <<Param(1024, 10), Param(1024, 4), Param(2048, 3)>> >>

\* outcomes of the allocations of one finalize
Injections ==
    {NoInjection,
     [NoInjection EXCEPT !.policy = "high"],
     [NoInjection EXCEPT !.failAt = 2],
     [NoInjection EXCEPT !.failAt = 4],
     [NoInjection EXCEPT !.failAt = 7],
     [NoInjection EXCEPT !.lutFail = NETMAP_RING_POOL],
     [NoInjection EXCEPT !.bmFail = NETMAP_BUF_POOL]}

\* what a read past the end of a lut may yield: NULL or an address that
\* belongs to no cluster
WildValues == {NULL, (ArenaPages + 2) * PAGE_SIZE}

\* the state the fabric operators work on
St ==
    [nmd |-> nm_mem, kring |-> kring, ring |-> ring, bufw |-> bufw,
     ifmem |-> ifmem, host_rings |-> host_rings, log |-> <<>>]

\* the state a fabric operator leaves
Commit(st, op, ret, n) ==
    /\ nm_mem' = st.nmd
    /\ kring' = st.kring
    /\ ring' = st.ring
    /\ bufw' = st.bufw
    /\ ifmem' = st.ifmem
    /\ log' = st.log
    /\ held' = HeldAfter(held, st.log, Len(st.log))
    /\ call' = [NoCall EXCEPT !.op = op, !.ret = ret, !.n = n]
    /\ UNCHANGED <<tx_rings, carrier, peer, host_rings, mem_list, deleting,
                   syncs, locks,
                   os_heap>>

\* a write of the sysctl variables
MemSetParams(c) ==
    /\ \E i \in Pools : nm_mem.params[i].size # ParamSets[c][i + 1].size
                        \/ nm_mem.params[i].num # ParamSets[c][i + 1].num
    /\ nm_mem' = [nm_mem EXCEPT !.params =
           [i \in Pools |-> [@[i] EXCEPT !.size = ParamSets[c][i + 1].size,
                                         !.num = ParamSets[c][i + 1].num]]]
    /\ call' = [NoCall EXCEPT !.op = "params"]
    /\ log' = <<>>
    /\ UNCHANGED <<vethVars, os_heap, ifmem, bufw, priv, others, host_rings,
                   mem_list, deleting, syncs, locks, held>>

\* freshly allocated clusters are zeroed (M_ZERO)
ZeroIfMem(d) ==
    [v \in {d.pools[NETMAP_IF_POOL].lut[j] :
              j \in 1..Len(d.pools[NETMAP_IF_POOL].lut)} \ {NULL} |-> ZeroIf]

ZeroBufMem(d) == [i \in 0..(d.pools[NETMAP_BUF_POOL].objtotal - 1) |-> 0]

\* netmap_mem_finalize(nmd, na), by the client (who = 1, for its adapter) or
\* by another user, whose adapter na may sit in any IOMMU group; a domain
\* in use stays as it is, so that no allocation takes place, and the OS
\* does not fail an allocation of the finalize after a failed one
MemFinalize(who, na, inj) ==
    /\ IF who = 1 THEN ~priv.np_active /\ na = MemAdapter
                  ELSE others < MaxOthers
    /\ nm_mem.active > 0 /\ nm_mem.finalized => inj = NoInjection
    /\ nm_mem.lasterr # 0 =>
          inj.failAt = 0 /\ inj.lutFail = -1 /\ inj.bmFail = -1
    /\ LET f == netmap_mem_finalize(nm_mem, os_heap, na, inj)
           \* the clusters are (re)built unless the domain stays finalized
           rebuilt == ~netmap_mem2_config(
                          nm_mem_assign_group(nm_mem, DevGroup(na)).nmd,
                          os_heap).nmd.finalized
       IN /\ nm_mem' = f.nmd
          /\ os_heap' = f.heap
          /\ ifmem' = IF rebuilt THEN ZeroIfMem(f.nmd) ELSE ifmem
          /\ bufw' = IF rebuilt THEN ZeroBufMem(f.nmd) ELSE bufw
          /\ held' = IF rebuilt THEN NoneHeld ELSE held
          /\ call' = [NoCall EXCEPT !.op = "finalize", !.k = <<na>>,
                                    !.ret = f.err]
          /\ IF f.err # 0 THEN UNCHANGED <<priv, others>>
             ELSE IF who = 1
             THEN priv' = [priv EXCEPT !.np_active = TRUE] /\ UNCHANGED others
             ELSE others' = others + 1 /\ UNCHANGED priv
    /\ log' = <<>>
    /\ UNCHANGED <<vethVars, host_rings, mem_list, deleting, syncs, locks>>

\* netmap_mem_deref(nmd, na); the client leaves after its rings and its
\* netmap_if are gone; call.n: the buffers handed out at that time
MemDeref(who) ==
    /\ IF who = 1
       THEN /\ priv.np_active /\ ~priv.np_bound /\ priv.np_nifp = NULL
            /\ \A k \in KringIds : kring[k].ring = NULL
       ELSE others > 0
    /\ nm_mem' = netmap_mem_deref(nm_mem)
    /\ held' = IF nm_mem.active = 1 THEN NoneHeld ELSE held
    /\ IF who = 1
       THEN priv' = [priv EXCEPT !.np_active = FALSE] /\ UNCHANGED others
       ELSE others' = others - 1 /\ UNCHANGED priv
    /\ call' = [NoCall EXCEPT !.op = "deref",
                              !.n = Cardinality(held[NETMAP_BUF_POOL])]
    /\ log' = <<>>
    /\ UNCHANGED <<vethVars, os_heap, ifmem, bufw, host_rings, mem_list,
                   deleting, syncs, locks>>

\* the krings [np_qfirst[t], np_qlast[t]) of the client's adapter
Selected(pr) ==
    {k \in KringIds : /\ k[1] = MemAdapter
                      /\ k[3] >= pr.np_qfirst[k[2]]
                      /\ k[3] < pr.np_qlast[k[2]]}

\* the client binds the krings it selects (the core counts it in
\* kring->users); the core has deleted the rings of the previous binding
MemBind(sel) ==
    /\ priv.np_active /\ ~priv.np_bound /\ priv.np_nifp = NULL
    /\ \A k \in KringIds : kring[k].ring = NULL
    /\ priv' = [priv EXCEPT !.np_bound = TRUE, !.np_qfirst = sel.qfirst,
                            !.np_qlast = sel.qlast]
    /\ kring' = [k \in KringIds |->
                   IF k \in Selected(priv')
                   THEN [kring[k] EXCEPT !.users = @ + 1] ELSE kring[k]]
    /\ call' = [NoCall EXCEPT !.op = "bind"]
    /\ log' = <<>>
    /\ UNCHANGED <<tx_rings, ring, carrier, peer, nm_mem, os_heap, ifmem,
                   bufw, host_rings, mem_list, deleting, syncs, locks, held, others>>

\* the client lets its krings go
MemUnbind ==
    /\ priv.np_bound
    /\ priv' = [priv EXCEPT !.np_bound = FALSE]
    /\ kring' = [k \in KringIds |->
                   IF k \in Selected(priv)
                   THEN [kring[k] EXCEPT !.users = @ - 1] ELSE kring[k]]
    /\ call' = [NoCall EXCEPT !.op = "unbind"]
    /\ log' = <<>>
    /\ UNCHANGED <<tx_rings, ring, carrier, peer, nm_mem, os_heap, ifmem,
                   bufw, host_rings, mem_list, deleting, syncs, locks, held, others>>

\* netmap_mem_rings_create(na), which the core calls when the client
\* registers, after it has bound the krings and before if_new
MemRingsCreate(wild) ==
    /\ priv.np_bound /\ priv.np_nifp = NULL
    /\ LET r == netmap_mem2_rings_create(St, MemAdapter, wild)
       IN Commit(r.st, "rings_create", r.err, 0)
    /\ UNCHANGED <<priv, others>>

\* netmap_mem_rings_delete(na), which the core calls when the client
\* unregisters, after it has let the krings go
MemRingsDelete ==
    /\ priv.np_active /\ ~priv.np_bound
    /\ Commit(netmap_mem2_rings_delete(St, MemAdapter), "rings_delete", 0, 0)
    /\ UNCHANGED <<priv, others>>

\* netmap_mem_if_new(na, priv), which the core calls once rings_create
\* has succeeded
MemIfNew ==
    /\ priv.np_bound /\ priv.np_nifp = NULL
    /\ \A k \in Selected(priv) : kring[k].ring # NULL
    /\ LET r == netmap_mem2_if_new(St, MemAdapter,
                    [qfirst |-> priv.np_qfirst, qlast |-> priv.np_qlast])
       IN /\ Commit(r.st, "if_new", IF r.nifp = NULL THEN ENOMEM ELSE 0,
                    r.nifp)
          /\ priv' = [priv EXCEPT !.np_nifp = r.nifp]
    /\ UNCHANGED others

\* netmap_extra_alloc(na, &nifp->ni_bufs_head, n), which the core calls
\* right after if_new when the client asks for n > 0 extra buffers
MemExtraAlloc(n, wild) ==
    /\ priv.np_nifp # NULL
    /\ call.op = "if_new"
    /\ LET r == netmap_extra_alloc(St, n, wild)
       IN Commit([r.st EXCEPT !.ifmem[priv.np_nifp].ni_bufs_head = r.head],
                 "extra_alloc", 0, r.n)
    /\ UNCHANGED <<priv, others>>

\* netmap_mem_if_delete(na, nifp), which the core calls when the client
\* unregisters, after it has let the krings go; of the freed object only
\* ni_bufs_head is remembered, the field if_new does not overwrite
MemIfDelete ==
    /\ priv.np_nifp # NULL /\ ~priv.np_bound
    /\ LET st == netmap_mem2_if_delete(St, priv.np_nifp)
       IN Commit([st EXCEPT !.ifmem[priv.np_nifp] =
                      [ZeroIf EXCEPT !.ni_bufs_head =
                                         st.ifmem[priv.np_nifp].ni_bufs_head]],
                 "if_delete", 0, priv.np_nifp)
    /\ priv' = [priv EXCEPT !.np_nifp = NULL]
    /\ UNCHANGED others

\* the adapters are attached and their krings exist; nobody has used the
\* domain yet
Init ==
    /\ tx_rings = [na \in Adapters |-> TRUE]
    /\ kring = [k \in KringIds |-> NewKring(k[2], k[3])]
    /\ ring = [k \in KringIds |-> NoRing]
    /\ carrier = [na \in Adapters |-> TRUE]
    /\ peer = [na \in Adapters |-> TRUE]
    /\ call = NoCall
    /\ nm_mem = [NewDomain EXCEPT !.params =
           [i \in Pools |-> [NewParams EXCEPT !.size = ParamSets[1][i + 1].size,
                                              !.num = ParamSets[1][i + 1].num]]]
    /\ os_heap = {}
    /\ ifmem = <<>>
    /\ bufw = <<>>
    /\ priv = NoPriv
    /\ others = 0
    /\ \E hr \in BOOLEAN : host_rings = [na \in Adapters |-> hr]
    /\ mem_list = MemListInit
    /\ deleting = NoneDeleting
    /\ syncs = NoSyncs
    /\ locks = NoLocks
    /\ held = NoneHeld
    /\ log = <<>>

\* the client's view: the sysctl variables are written before the domain
\* is first finalized, and every user's adapter sits in the IOMMU group of
\* the client's
Next ==
    \/ \E c \in 1..Len(ParamSets) :
          /\ nm_mem.active = 0 /\ ~nm_mem.finalized /\ os_heap = {}
          /\ MemSetParams(c)
    \/ \E who \in {0, 1}, inj \in Injections :
          MemFinalize(who, MemAdapter, inj)
    \/ \E who \in {0, 1} : MemDeref(who)
    \/ \E sel \in Selections : MemBind(sel)
    \/ MemUnbind
    \/ \E wild \in WildValues : MemRingsCreate(wild)
    \/ MemRingsDelete
    \/ MemIfNew
    \/ \E wild \in WildValues : MemExtraAlloc(MaxExtra, wild)
    \/ MemIfDelete

Spec == Init /\ [][Next]_vars

(***************************************************************************)
(* Life cycle of the domain alone: users of any IOMMU group come and go    *)
(* and the sysctl variables are written at any time                        *)
(***************************************************************************)
\* netmap_mem2_get_info(nmd, ...): the configuration is brought up to date
\* before the sizes are reported
MemGetInfo ==
    /\ LET c == netmap_mem2_config(nm_mem, os_heap)
           reset == nm_mem.finalized /\ ~c.nmd.finalized
       IN /\ nm_mem' = c.nmd
          /\ os_heap' = c.heap
          /\ ifmem' = IF reset THEN ZeroIfMem(c.nmd) ELSE ifmem
          /\ bufw' = IF reset THEN ZeroBufMem(c.nmd) ELSE bufw
          /\ held' = IF reset THEN NoneHeld ELSE held
          /\ call' = [NoCall EXCEPT !.op = "get_info", !.ret = c.err]
    /\ log' = <<>>
    /\ UNCHANGED <<vethVars, priv, others, host_rings, mem_list, deleting,
                   syncs, locks>>

\* the sysctl variables take two valid settings and one that
\* netmap_config_obj_allocator rejects (fewer buffers than nummin); the OS
\* places the clusters lowest fit and fails the allocation of a lut, of a
\* bitmap, or of the second or the fourth cluster
NextDom ==
    \/ \E c \in {1, 2, 6} : MemSetParams(c)
    \/ MemGetInfo
    \/ \E who \in {0, 1}, na \in Adapters,
          inj \in {x \in Injections : x.policy = "low" /\ x.failAt < 7} :
          MemFinalize(who, na, inj)
    \/ \E who \in {0, 1} : MemDeref(who)

\* the adapters have host rings, which no step of the life cycle looks at
InitDom == Init /\ host_rings[MemAdapter]

SpecDom == InitDom /\ [][NextDom]_vars

(***************************************************************************)
(* State machine of the list of allocators: private allocators are created *)
(* and their last reference is dropped, nm_mem staying linked throughout   *)
(***************************************************************************)
\* the netmap_mem_config(d) outcomes of _netmap_mem_private_new
ConfigErrors == {0, EINVAL}

\* netmap_mem_private_new(...)
MemPrivateNew(cfgerr) ==
    /\ LET r == netmap_mem_private_new(mem_list, cfgerr)
       IN /\ mem_list' = r.list
          /\ call' = [NoCall EXCEPT !.op = "private_new", !.ret = r.err]
    /\ UNCHANGED <<vethVars, nm_mem, os_heap, ifmem, bufw, priv, others,
                   host_rings, deleting, syncs, locks, held, log>>

\* netmap_mem_put(nmd) by the holder of the only reference to the private
\* allocator at position pos
MemPut(pos) ==
    /\ pos \in 1..Len(mem_list)
    /\ mem_list[pos].private
    /\ mem_list' = netmap_mem_put(mem_list, pos)
    /\ call' = [NoCall EXCEPT !.op = "put"]
    /\ UNCHANGED <<vethVars, nm_mem, os_heap, ifmem, bufw, priv, others,
                   host_rings, deleting, syncs, locks, held, log>>

NextList ==
    \/ \E cfgerr \in ConfigErrors : MemPrivateNew(cfgerr)
    \/ \E pos \in 1..(2 ^ IdBits) : MemPut(pos)

SpecList == InitDom /\ [][NextList]_vars

(***************************************************************************)
(* State machine of the references to the allocators: threads create,      *)
(* get, find and put allocators; each call runs under nm_mem_list_lock,    *)
(* the netmap_mem_delete of a put after the lock is dropped                *)
(***************************************************************************)
\* private allocators that exist at one time
MaxPrivate == 1

\* the nm_id values netmap_mem_find is asked for
FindIds == 1..(2 ^ IdBits - 1)

RefCommit(list, del, op, ret) ==
    /\ mem_list' = list
    /\ deleting' = del
    /\ call' = [NoCall EXCEPT !.op = op, !.ret = ret]
    /\ UNCHANGED <<vethVars, nm_mem, os_heap, ifmem, bufw, priv, others,
                   host_rings, syncs, locks, held, log>>

\* thread t creates a private allocator and holds its first reference; the
\* owner may keep the allocator hidden
RefNew(t, hide) ==
    /\ deleting[t] = <<>>
    /\ Len(mem_list) <= MaxPrivate
    /\ LET r == netmap_mem_private_new(mem_list, 0)
           n == Len(r.list)
       IN IF r.err # 0 THEN RefCommit(mem_list, deleting, "new", r.err)
          ELSE RefCommit([r.list EXCEPT ![n].hidden = hide, ![n].refs = {t}],
                         deleting, "new", 0)

\* netmap_mem_get(nmd) by thread t, handed nmd by a holder of a reference
RefGet(t, pos) ==
    /\ deleting[t] = <<>>
    /\ pos \in 1..Len(mem_list)
    /\ t \notin mem_list[pos].refs
    /\ ~mem_list[pos].private \/ mem_list[pos].refs # {}
    /\ RefCommit([netmap_mem_get(mem_list, pos) EXCEPT
                     ![pos].refs = mem_list[pos].refs \cup {t}],
                 deleting, "get", 0)

\* netmap_mem_find(id) by thread t
RefFind(t, id) ==
    /\ deleting[t] = <<>>
    /\ \A pos \in 1..Len(mem_list) :
          mem_list[pos].nm_id = id => t \notin mem_list[pos].refs
    /\ LET f == netmap_mem_find(mem_list, id)
       IN IF f.pos = 0 THEN RefCommit(f.list, deleting, "find", 0)
          ELSE RefCommit([f.list EXCEPT
                             ![f.pos].refs = mem_list[f.pos].refs \cup {t}],
                         deleting, "find", 1)

\* netmap_mem_put(nmd) by thread t, up to the unlock
RefPut(t, pos) ==
    /\ deleting[t] = <<>>
    /\ pos \in 1..Len(mem_list)
    /\ t \in mem_list[pos].refs
    /\ LET held1 == [mem_list EXCEPT ![pos].refs = mem_list[pos].refs \ {t}]
           r == netmap_mem_put_locked(held1, pos)
       IN RefCommit(r.list,
                    IF r.last THEN [deleting EXCEPT ![t] = <<r.nmd>>]
                    ELSE deleting,
                    "put", 0)

\* if (last) netmap_mem_delete(nmd), the rest of the put of thread t
RefDelete(t) ==
    /\ deleting[t] # <<>>
    /\ RefCommit(mem_list, [deleting EXCEPT ![t] = <<>>], "delete", 0)

NextRef ==
    \/ \E t \in Threads, hide \in BOOLEAN : RefNew(t, hide)
    \/ \E t \in Threads, pos \in 1..(MaxPrivate + 2) : RefGet(t, pos)
    \/ \E t \in Threads, id \in FindIds : RefFind(t, id)
    \/ \E t \in Threads, pos \in 1..(MaxPrivate + 2) : RefPut(t, pos)
    \/ \E t \in Threads : RefDelete(t)

SpecRef == InitDom /\ [][NextRef]_vars

(***************************************************************************)
(* State machine of nm_mem_list_lock: each thread takes the lock, runs the *)
(* body of its call and drops the lock; _netmap_mem_private_new configures *)
(* the new allocator after it has dropped the lock                         *)
(***************************************************************************)
\* the host memory ids netmap_mem_pt_guest_get is asked for
HostMemIds == 1..2

\* the operations that start with NM_MTX_LOCK(nm_mem_list_lock)
ListOps == {"get", "put", "find", "new", "pt_get"}

\* the ptnetmap allocator netmap_mem_pt_guest_create fills in
NewPtGuest(mem_id) ==
    [nm_id |-> 0, refcount |-> 0, private |-> TRUE, hidden |-> FALSE,
     refs |-> {}, host_mem_id |-> mem_id]

\* the position in list of the allocator whose nm_id is id, 0 if none
PosOfId(list, id) ==
    IF \E pos \in 1..Len(list) : list[pos].nm_id = id
    THEN CHOOSE pos \in 1..Len(list) : list[pos].nm_id = id
    ELSE 0

RECURSIVE PtFindLoop(_, _, _)
\* the do-while loop of netmap_mem_pt_guest_find_memid; pos is the
\* position of scan
PtFindLoop(list, mem_id, pos) ==
    IF "host_mem_id" \in DOMAIN list[pos] /\ list[pos].host_mem_id = mem_id
    THEN [list |-> [list EXCEPT ![pos].refcount = list[pos].refcount + 1],
          pos |-> pos]
    ELSE LET next == (pos % Len(list)) + 1
         IN  IF next # Len(list) THEN PtFindLoop(list, mem_id, next)
             ELSE [list |-> list, pos |-> 0]

\* netmap_mem_pt_guest_find_memid(mem_id)
netmap_mem_pt_guest_find_memid(list, mem_id) ==
    PtFindLoop(list, mem_id, Len(list))

\* netmap_mem_pt_guest_create(mem_id): a failed nm_mem_assign_id_locked
\* frees the allocator, which was never linked
netmap_mem_pt_guest_create(list, mem_id) ==
    LET a == nm_mem_assign_id_locked(list, NewPtGuest(mem_id))
    IN  IF a.error # 0 THEN [list |-> list, pos |-> 0]
        ELSE [list |-> a.list, pos |-> Len(a.list)]

\* netmap_mem_pt_guest_get(mem_id) between the lock and the unlock
netmap_mem_pt_guest_get(list, mem_id) ==
    LET f == netmap_mem_pt_guest_find_memid(list, mem_id)
    IN  IF f.pos # 0 THEN f ELSE netmap_mem_pt_guest_create(list, mem_id)

LockCommit(list, lk, op, t, ret) ==
    /\ mem_list' = list
    /\ locks' = lk
    /\ call' = [NoCall EXCEPT !.op = op, !.ret = ret]
    /\ UNCHANGED <<vethVars, nm_mem, os_heap, ifmem, bufw, priv, others,
                   host_rings, deleting, syncs, held, log>>

\* NM_MTX_LOCK(nm_mem_list_lock) at the start of operation op of thread t;
\* arg is the nm_id of the allocator a get or a put is about, the id a find
\* or a netmap_mem_pt_guest_get looks for
ListLock(t, op, arg) ==
    /\ locks.pc[t] = "idle"
    /\ locks.list_lock = "free"
    /\ LET pos == PosOfId(mem_list, arg)
       IN CASE op = "get" ->
                 /\ pos # 0
                 /\ t \notin mem_list[pos].refs
                 /\ ~mem_list[pos].private \/ mem_list[pos].refs # {}
            [] op = "put" -> pos # 0 /\ t \in mem_list[pos].refs
            [] op = "find" ->
                 IF pos = 0 THEN TRUE ELSE t \notin mem_list[pos].refs
            [] op = "new" -> arg = 0 /\ Len(mem_list) <= MaxPrivate
            [] op = "pt_get" ->
                 /\ arg \in HostMemIds
                 /\ Len(mem_list) <= MaxPrivate
                 /\ \A p \in 1..Len(mem_list) : t \notin mem_list[p].refs
    /\ LockCommit(mem_list,
                  [locks EXCEPT !.list_lock = t, !.pc[t] = op,
                                !.arg[t] = arg],
                  "lock", t, 0)

\* the body of the operation of thread t and its
\* NM_MTX_UNLOCK(nm_mem_list_lock)
ListBody(t) ==
    /\ locks.list_lock = t
    /\ locks.pc[t] \in ListOps
    /\ LET op == locks.pc[t]
           arg == locks.arg[t]
           pos == PosOfId(mem_list, arg)
           Done(list, pc, a, ret) ==
               LockCommit(list,
                          [locks EXCEPT !.list_lock = "free", !.pc[t] = pc,
                                        !.arg[t] = a],
                          op, t, ret)
           Taken(list, p) ==
               [list EXCEPT ![p].refs = list[p].refs \cup {t}]
       IN CASE op = "get" ->
                 IF pos = 0 THEN Done(mem_list, "idle", 0, 0)
                 ELSE Done(Taken(netmap_mem_get(mem_list, pos), pos),
                           "idle", 0, 0)
            [] op = "put" ->
                 IF pos = 0 THEN Done(mem_list, "idle", 0, 0)
                 ELSE LET r == netmap_mem_put_locked(
                                   [mem_list EXCEPT
                                       ![pos].refs = mem_list[pos].refs \ {t}],
                                   pos)
                      IN Done(r.list, IF r.last THEN "delete" ELSE "idle",
                              0, 0)
            [] op = "find" ->
                 LET f == netmap_mem_find(mem_list, arg)
                 IN IF f.pos = 0 THEN Done(f.list, "idle", 0, 0)
                    ELSE Done(Taken(f.list, f.pos), "idle", 0, 1)
            [] op = "new" ->
                 LET a == nm_mem_assign_id_locked(mem_list, NewPrivate)
                 IN IF a.error # 0 THEN Done(mem_list, "idle", 0, a.error)
                    ELSE Done(Taken(a.list, Len(a.list)), "config",
                              a.list[Len(a.list)].nm_id, 0)
            [] op = "pt_get" ->
                 LET g == netmap_mem_pt_guest_get(mem_list, arg)
                 IN IF g.pos = 0 THEN Done(g.list, "idle", 0, 0)
                    ELSE Done(Taken(g.list, g.pos), "idle", 0, 1)

\* err = netmap_mem_config(d) of _netmap_mem_private_new, after the list
\* lock has been dropped by nm_mem_assign_id
NewConfig(t, cfgerr) ==
    /\ locks.pc[t] = "config"
    /\ IF cfgerr # 0
       THEN LockCommit(mem_list, [locks EXCEPT !.pc[t] = "error_rel_id"],
                       "config", t, cfgerr)
       ELSE LockCommit(mem_list,
                       [locks EXCEPT !.pc[t] = "idle", !.arg[t] = 0],
                       "config", t, 0)

\* error_rel_id of _netmap_mem_private_new: nm_mem_release_id(d) is called
\* as it stands, without nm_mem_list_lock; while another thread is inside
\* its critical section the stores race with it and the unlink may be lost
NewReleaseId(t, lost) ==
    /\ locks.pc[t] = "error_rel_id"
    /\ lost => locks.list_lock \in Threads \ {t}
    /\ LET pos == PosOfId(mem_list, locks.arg[t])
       IN LockCommit(IF lost \/ pos = 0 THEN mem_list
                     ELSE nm_mem_release_id(mem_list, pos),
                     [locks EXCEPT !.pc[t] = "idle", !.arg[t] = 0],
                     "release_id", t, 0)

\* if (last) netmap_mem_delete(nmd), the rest of the put of thread t
LockDelete(t) ==
    /\ locks.pc[t] = "delete"
    /\ LockCommit(mem_list, [locks EXCEPT !.pc[t] = "idle"], "delete", t, 0)

NextLock ==
    \/ \E t \in Threads, op \in ListOps, arg \in 0..(2 ^ IdBits - 1) :
          ListLock(t, op, arg)
    \/ \E t \in Threads : ListBody(t)
    \/ \E t \in Threads, cfgerr \in ConfigErrors : NewConfig(t, cfgerr)
    \/ \E t \in Threads, lost \in BOOLEAN : NewReleaseId(t, lost)
    \/ \E t \in Threads : LockDelete(t)

SpecLock == InitDom /\ [][NextLock]_vars

(***************************************************************************)
(* State machine of the mutex of the allocators: each operation takes the  *)
(* mutex of its allocator with NMA_LOCK and returns through one of the     *)
(* paths of its function; a path that does not pass NMA_UNLOCK leaves the  *)
(* mutex with the thread that took it                                      *)
(***************************************************************************)
\* the operations of netmap_mem_global_ops that take the mutex, with the
\* wrappers netmap_mem_finalize and netmap_mem_deref
GlobalOps ==
    {"get_info", "ofstophys", "if_offset", "if_new", "if_delete",
     "rings_create", "rings_delete", "finalize", "deref"}

\* the operations on a ptnetmap allocator that take the mutex
PtGuestOps ==
    {"get_info", "ifp_add", "ifp_del", "if_new", "if_delete",
     "rings_create", "finalize", "deref"}

\* NMA_LOCK(nmd), NMA_UNLOCK(nmd) by thread t on the allocator of variant v
NMA_LOCK(lk, v, t) == [lk EXCEPT !.nm_mtx[v] = t]

NMA_UNLOCK(lk, v) == [lk EXCEPT !.nm_mtx[v] = "free"]

\* netmap_mem_pt_guest_ifp_lookup(nmd, ifp): found or NULL
netmap_mem_pt_guest_ifp_lookup(lk, ifp) == ifp \in lk.pt_ifs

\* an operation of the global variant by thread t, from its NMA_LOCK to its
\* return; fail: the path taken is the error path of the function.  Every
\* path passes an NMA_UNLOCK: ofstophys, if_new and rings_create have one
\* on the error path and one on the other
GlobalOp(lk, t, op, fail) ==
    LET locked == NMA_LOCK(lk, "global", t)
    IN  [lk |-> NMA_UNLOCK(locked, "global"),
         ret |-> IF fail /\ op \in {"get_info", "if_new", "rings_create",
                                    "finalize"}
                 THEN ENOMEM ELSE 0]

\* netmap_mem_pt_guest_if_new(na, priv): an interface that is not in the
\* passthrough map takes goto out, past the NMA_UNLOCK
netmap_mem_pt_guest_if_new(lk, t, ifp) ==
    LET locked == NMA_LOCK(lk, "pt_guest", t)
    IN  IF ~netmap_mem_pt_guest_ifp_lookup(locked, ifp)
        THEN [lk |-> locked, ret |-> 0]
        ELSE [lk |-> NMA_UNLOCK(locked, "pt_guest"), ret |-> 1]

\* netmap_mem_pt_guest_rings_create(na): the label out stands before the
\* NMA_UNLOCK; -1 for an interface that is not in the passthrough map
netmap_mem_pt_guest_rings_create(lk, t, ifp) ==
    LET locked == NMA_LOCK(lk, "pt_guest", t)
    IN  [lk |-> NMA_UNLOCK(locked, "pt_guest"),
         ret |-> IF netmap_mem_pt_guest_ifp_lookup(locked, ifp) THEN 0
                 ELSE -1]

\* netmap_mem_pt_guest_ifp_add(nmd, ifp, nifp_offset); fail: nm_os_malloc
\* returns NULL, before the mutex is taken
netmap_mem_pt_guest_ifp_add(lk, t, ifp, fail) ==
    IF fail THEN [lk |-> lk, ret |-> ENOMEM]
    ELSE LET locked == NMA_LOCK(lk, "pt_guest", t)
             linked == [locked EXCEPT !.pt_ifs = @ \cup {ifp}]
         IN  [lk |-> NMA_UNLOCK(linked, "pt_guest"), ret |-> 0]

\* netmap_mem_pt_guest_ifp_del(nmd, ifp)
netmap_mem_pt_guest_ifp_del(lk, t, ifp) ==
    LET locked == NMA_LOCK(lk, "pt_guest", t)
        found == netmap_mem_pt_guest_ifp_lookup(locked, ifp)
        unlinked == [locked EXCEPT !.pt_ifs = @ \ {ifp}]
    IN  [lk |-> NMA_UNLOCK(unlinked, "pt_guest"),
         ret |-> IF found THEN 0 ELSE -1]

\* an operation on the ptnetmap allocator by thread t
PtGuestOp(lk, t, op, ifp, fail) ==
    CASE op = "if_new" -> netmap_mem_pt_guest_if_new(lk, t, ifp)
      [] op = "rings_create" -> netmap_mem_pt_guest_rings_create(lk, t, ifp)
      [] op = "ifp_add" -> netmap_mem_pt_guest_ifp_add(lk, t, ifp, fail)
      [] op = "ifp_del" -> netmap_mem_pt_guest_ifp_del(lk, t, ifp)
      [] OTHER ->
           \* get_info, if_delete, and finalize and deref through the
           \* wrappers: one NMA_UNLOCK, on every path
           [lk |-> NMA_UNLOCK(NMA_LOCK(lk, "pt_guest", t), "pt_guest"),
            ret |-> IF fail /\ op = "finalize" THEN ENOMEM ELSE 0]

MtxCommit(r, v, op, who) ==
    /\ locks' = r.lk
    /\ call' = [NoCall EXCEPT !.op = op, !.ret = r.ret, !.k = who]
    /\ UNCHANGED <<vethVars, nm_mem, os_heap, ifmem, bufw, priv, others,
                   host_rings, mem_list, deleting, syncs, held, log>>

\* thread t runs an operation of the global variant
MtxGlobal(t, op, fail) ==
    /\ locks.nm_mtx["global"] = "free"
    /\ MtxCommit(GlobalOp(locks, t, op, fail), "global", op, <<t>>)

\* thread t runs an operation on the ptnetmap allocator for interface ifp
MtxPtGuest(t, op, ifp, fail) ==
    /\ locks.nm_mtx["pt_guest"] = "free"
    /\ MtxCommit(PtGuestOp(locks, t, op, ifp, fail), "pt_guest", op,
                 <<t, ifp>>)

NextMtx ==
    \/ \E t \in Threads, op \in GlobalOps, fail \in BOOLEAN :
          MtxGlobal(t, op, fail)
    \/ \E t \in Threads, op \in PtGuestOps, ifp \in Adapters,
          fail \in BOOLEAN : MtxPtGuest(t, op, ifp, fail)

SpecMtx == InitDom /\ [][NextMtx]_vars

(***************************************************************************)
(* State machine of the sizes of a domain: the parameters are drawn from   *)
(* what the limits of the pools accept, netmap_mem_config configures the   *)
(* pools and the finalize computes memtotal and nm_totalsize.  Every       *)
(* _clustsize is a multiple of PAGE_SIZE, so the sizes are kept in pages:  *)
(* an u_int wraps at 2^32 bytes, which is U32Pages pages                   *)
(***************************************************************************)
\* 2^32 / PAGE_SIZE
U32Pages == 1048576

\* the object sizes and the numbers of objects asked for, per pool
SizeParams(i) ==
    IF i = NETMAP_IF_POOL
    THEN {Param(1024, 10), Param(4096, 10000)}
    ELSE IF i = NETMAP_RING_POOL
    THEN {Param(1024, 2), Param(9 * PAGE_SIZE, 200), Param(32 * PAGE_SIZE, 1024)}
    ELSE {Param(s, n) : s \in {64, 2048, 4096, 65536, 65600},
                        n \in {4, 65535, 65536, 65537, 1000000, 1000001}}

\* p->memtotal = p->numclusters * p->_clustsize, an u_int, in pages
MemTotalPages(p) ==
    (p._numclusters * (p._clustsize \div PAGE_SIZE)) % U32Pages

RECURSIVE TotalSizeLoop(_, _, _)
\* nmd->nm_totalsize += nmd->pools[i].memtotal of netmap_mem_finalize_all,
\* an u_int, in pages
TotalSizeLoop(nmd, i, total) ==
    IF i < 3
    THEN TotalSizeLoop(nmd, i + 1,
                       (total + MemTotalPages(nmd.pools[i])) % U32Pages)
    ELSE total

\* the domain as the sysctl variables sz leave it
SizeDomain(sz) ==
    [NewDomain EXCEPT !.params =
        [i \in Pools |-> [NewParams EXCEPT !.size = sz[i].size,
                                           !.num = sz[i].num]]]

InitSize ==
    /\ \E sz \in [Pools -> UNION {SizeParams(i) : i \in Pools}] :
          /\ \A i \in Pools : sz[i] \in SizeParams(i)
          /\ nm_mem = SizeDomain(sz)
    /\ os_heap = {}
    /\ ifmem = <<>>
    /\ bufw = <<>>
    /\ tx_rings = [na \in Adapters |-> TRUE]
    /\ kring = [k \in KringIds |-> NewKring(k[2], k[3])]
    /\ ring = [k \in KringIds |-> NoRing]
    /\ carrier = [na \in Adapters |-> TRUE]
    /\ peer = [na \in Adapters |-> TRUE]
    /\ call = NoCall
    /\ priv = NoPriv
    /\ others = 0
    /\ host_rings = [na \in Adapters |-> TRUE]
    /\ mem_list = MemListInit
    /\ deleting = NoneDeleting
    /\ syncs = NoSyncs
    /\ locks = NoLocks
    /\ held = NoneHeld
    /\ log = <<>>

\* netmap_mem_config and, when it accepts the parameters, the sizes a
\* finalize whose allocations all succeed computes
SizeFinalize ==
    /\ call.op = "none"
    /\ LET nmd == ConfigLoop(nm_mem, 0)
       IN /\ nm_mem' = nmd
          /\ IF nmd.lasterr # 0
             THEN /\ call' = [NoCall EXCEPT !.op = "config",
                                            !.ret = nmd.lasterr]
                  /\ log' = <<>>
             ELSE /\ call' = [NoCall EXCEPT !.op = "finalize"]
                  /\ log' = << [memtotal |->
                                   [i \in Pools |->
                                       MemTotalPages(nmd.pools[i])],
                                nm_totalsize |-> TotalSizeLoop(nmd, 0, 0)] >>
    /\ UNCHANGED <<vethVars, os_heap, ifmem, bufw, priv, others, host_rings,
                   mem_list, deleting, syncs, locks, held>>

NextSize == SizeFinalize

SpecSize == InitSize /\ [][NextSize]_vars

(***************************************************************************)
(* Properties of the allocator                                             *)
(***************************************************************************)
BufPool == nm_mem.pools[NETMAP_BUF_POOL]

\* the successful allocations of the log of the most recent handler
Mallocs(lg) == {n \in 1..Len(lg) : lg[n].ev = "malloc" /\ lg[n].ret = 0}

\* C5: allocate never returns an index that is currently allocated: every
\* index a handler obtains from netmap_obj_malloc is, at that point of the
\* handler, not among the indices of its pool handed out and not freed since.
C5_NoIndexHandedOutTwice ==
    [][\A n \in Mallocs(log') :
          log'[n].j \notin HeldAfter(held, log', n - 1)[log'[n].pool]]_vars

\* rings_create hands out buffer 3 again, which an earlier ring held and
\* rings_delete freed, while buffer 2 of that ring is still handed out
C5_Witness ==
    /\ call.op = "rings_create" /\ call.ret = 0
    /\ \E n \in Mallocs(log) : log[n].pool = NETMAP_BUF_POOL /\ log[n].j = 3
    /\ \A n \in Mallocs(log) : log[n].pool = NETMAP_BUF_POOL => log[n].j # 2
    /\ 2 \in held[NETMAP_BUF_POOL]

PopCount(p) == Cardinality(FreeSet(p))

\* C6: in every state after finalize, objfree == popcount(bitmap) - 2 for the
\* BUF pool and objfree == popcount(bitmap) for the IF and RING pools, and
\* every set bit i has i < objtotal and lut[i].vaddr != NULL.
C6_Original ==
    nm_mem.finalized =>
       \A i \in Pools :
          LET p == nm_mem.pools[i]
          IN /\ p.objfree = PopCount(p) - (IF i = NETMAP_BUF_POOL THEN 2 ELSE 0)
             /\ \A j \in FreeSet(p) : j < p.objtotal /\ LutAt(p, j) # NULL

\* C7: bits 0 and 1 of the BUF bitmap are clear between the handlers (each of
\* which runs with the domain mutex held), and no allocation from the BUF
\* pool returns index 0 or 1.
C7_ReservedBuffers ==
    /\ Len(BufPool.bitmap) >= 1 => BufPool.bitmap[1] \cap {0, 1} = {}
    /\ \A n \in Mallocs(log) :
          log[n].pool = NETMAP_BUF_POOL => log[n].j \notin {0, 1}

\* rings_delete has given buffers back to the BUF pool
C7_Witness ==
    /\ call.op = "rings_delete"
    /\ \E n \in 1..Len(log) : /\ log[n].ev = "free" /\ log[n].ret = 0
                              /\ log[n].pool = NETMAP_BUF_POOL
    /\ Len(BufPool.bitmap) >= 1 /\ BufPool.bitmap[1] # {}

\* offset of the first byte of pool k in the region
PoolBase(d, k) ==
    IF k = NETMAP_IF_POOL THEN 0
    ELSE IF k = NETMAP_RING_POOL THEN d.pools[NETMAP_IF_POOL].memtotal
    ELSE d.pools[NETMAP_IF_POOL].memtotal + d.pools[NETMAP_RING_POOL].memtotal

\* C9: for every finalized pool k and every object i < objtotal,
\* netmap_obj_offset(lut[i].vaddr) == i * _objsize, and netmap_mem2_ofstophys
\* of the pool's base plus that offset is the physical address of
\* lut[i].vaddr.
C9_OffsetRoundTrip ==
    nm_mem.finalized =>
       \A k \in Pools :
          LET p == nm_mem.pools[k]
          IN \A i \in 0..(p.objtotal - 1) :
                /\ netmap_obj_offset(p, LutAt(p, i)) = i * p._objsize
                /\ netmap_mem2_ofstophys(nm_mem,
                      PoolBase(nm_mem, k) + netmap_obj_offset(p, LutAt(p, i)))
                   = vtophys(LutAt(p, i))

\* a finalized domain whose BUF clusters are not in address order
C9_Witness ==
    /\ nm_mem.finalized
    /\ BufPool.numclusters >= 2
    /\ \E i \in 1..(BufPool.objtotal - 1) : LutAt(BufPool, i) < LutAt(BufPool, 0)

\* position of kring k of its adapter in ring_ofs
RingOfsIndex(k) == IF k[2] = NR_TX THEN k[3] + 1 ELSE k[3] + 1 + (NRings + 1)

\* C10: for every ring that exists and every slot s of it, ring offset +
\* buf_ofs + s.buf_idx * nr_buf_size == IF.memtotal + RING.memtotal +
\* s.buf_idx * BUF._objsize, inside [IF.memtotal + RING.memtotal,
\* nm_totalsize); and after if_new, nifp offset + ring_ofs[k] is the offset
\* of every selected ring.
C10_Original ==
    /\ \A k \in KringIds :
          kring[k].ring # NULL =>
             \A n \in 1..Len(ring[k].slot) :
                LET idx == ring[k].slot[n].buf_idx
                    user == netmap_ring_offset(nm_mem, kring[k].ring)
                              + ring[k].buf_ofs + idx * ring[k].nr_buf_size
                IN /\ user = PoolBase(nm_mem, NETMAP_BUF_POOL)
                               + idx * BufPool._objsize
                   /\ user >= PoolBase(nm_mem, NETMAP_BUF_POOL)
                   /\ user < nm_mem.nm_totalsize
    /\ (call.op = "if_new" /\ call.ret = 0) =>
          \A k \in Selected(priv) :
             kring[k].ring # NULL =>
                netmap_if_offset(nm_mem, priv.np_nifp)
                   + ifmem[priv.np_nifp].ring_ofs[RingOfsIndex(k)]
                = netmap_ring_offset(nm_mem, kring[k].ring)

\* C11: rings_create publishes the buffer size unaltered: after a successful
\* rings_create every ring of the adapter has nr_buf_size == BUF._objsize and
\* every slot of it has len == BUF._objsize.
C11_Original ==
    (call.op = "rings_create" /\ call.ret = 0) =>
       \A k \in KringIds :
          (k[1] = MemAdapter /\ kring[k].ring # NULL) =>
             /\ ring[k].nr_buf_size = BufPool._objsize
             /\ \A n \in 1..Len(ring[k].slot) :
                   ring[k].slot[n].len = BufPool._objsize

(***************************************************************************)
(* Properties of the life cycle of the domain                              *)
(***************************************************************************)
\* what a configuration fixes of a pool, and its lookup table
PoolShape(p) ==
    <<p._objsize, p._objtotal, p._clustsize, p._clustentries, p._numclusters,
      p.lut>>

\* C12: while the domain has active > 0 no step (a write of params[], a
\* finalize or get_info with the config it performs, a deref) changes a
\* pool's _objsize,
\* _objtotal, _clustsize, _clustentries, _numclusters or lut, or the
\* FINALIZED flag; a finalize or get_info that finds active == 0 and changed
\* params and succeeds has configured the pools from the params written.
C12_ConfigFrozenWhileActive ==
    [][/\ nm_mem.active > 0 =>
             /\ nm_mem'.finalized = nm_mem.finalized
             /\ \A i \in Pools :
                   PoolShape(nm_mem'.pools[i]) = PoolShape(nm_mem.pools[i])
       /\ (call'.op \in {"finalize", "get_info"} /\ call'.ret = 0
             /\ nm_mem.active = 0
             /\ netmap_mem_params_changed(nm_mem.params).rv = 1) =>
             \A i \in Pools :
                /\ nm_mem'.pools[i].r_objsize = nm_mem.params[i].size
                /\ nm_mem'.pools[i].r_objtotal = nm_mem.params[i].num
                /\ nm_mem'.pools[i]._objsize = nm_mem.params[i].size
                /\ nm_mem'.pools[i]._objtotal >= nm_mem.params[i].num]_vars

\* a second user has finalized the domain after the number of buffers was
\* rewritten, and the BUF pool still has the configuration it had
C12_Witness ==
    /\ call.op = "finalize" /\ call.ret = 0
    /\ nm_mem.active = 2
    /\ nm_mem.params[NETMAP_BUF_POOL].num
          # nm_mem.pools[NETMAP_BUF_POOL].r_objtotal

C15_Original ==
    (call.op = "finalize" /\ call.ret = 0 /\ nm_mem.active = 1) =>
       \A i \in Pools :
          LET p == nm_mem.pools[i]
          IN p.objtotal < p._objtotal =>
                /\ p.objtotal = p.numclusters * p._clustentries
                /\ p.memtotal = p.numclusters * p._clustsize
                /\ \A j \in 0..(p.objtotal - 1) : LutAt(p, j) # NULL
                /\ p.objfree
                     = p.objtotal - (IF i = NETMAP_BUF_POOL THEN 2 ELSE 0)

\* the clusters of pool p that are allocated: the regions of the heap that
\* start where an object of p does
ClustersOf(p, heap) ==
    {r \in heap : \E j \in 1..Len(p.lut) : p.lut[j] = r.base}

\* C16: finalize does not report success for a pool that obtained fewer
\* than two clusters: after a successful finalize a pool that is degraded
\* (objtotal below the configured _objtotal) still has at least two clusters
\* allocated.
C16_Original ==
    (call.op = "finalize" /\ call.ret = 0 /\ nm_mem.active = 1) =>
       \A i \in Pools :
          LET p == nm_mem.pools[i]
          IN p.objtotal < p._objtotal =>
                /\ p.numclusters >= 2
                /\ Cardinality(ClustersOf(p, os_heap)) >= 2

\* C17: netmap_mem_deref by the last user (active == 1) leaves active == 0
\* and reclaims what is outstanding: in the IF and RING pools every index
\* below objtotal is marked free and objfree == objtotal, in the BUF pool
\* every index in [2, objtotal) is marked free and objfree == objtotal - 2.
\* With active > 1 it decreases active by one and leaves the bitmaps and
\* objfree as they are.  Either way the domain stays: FINALIZED, the
\* configuration and the lookup tables are unchanged.
C17_LastDerefReclaims ==
    [][call'.op = "deref" =>
          /\ nm_mem'.active = nm_mem.active - 1
          /\ nm_mem'.finalized = nm_mem.finalized
          /\ \A i \in Pools :
                LET p == nm_mem.pools[i]
                    q == nm_mem'.pools[i]
                    lo == IF i = NETMAP_BUF_POOL THEN 2 ELSE 0
                IN /\ PoolShape(q) = PoolShape(p)
                   /\ q.objtotal = p.objtotal
                   /\ IF nm_mem.active = 1
                      THEN /\ \A j \in lo..(q.objtotal - 1) : j \in FreeSet(q)
                           /\ q.objfree = q.objtotal - lo
                      ELSE q.bitmap = p.bitmap /\ q.objfree = p.objfree]_vars

\* the last user has left while buffers were still handed out, and the
\* BUF pool has all its buffers again
C17_Witness ==
    /\ call.op = "deref" /\ call.n > 0
    /\ nm_mem.active = 0 /\ nm_mem.finalized
    /\ BufPool.objfree = BufPool.objtotal - 2
    /\ 2 \in FreeSet(BufPool)

\* C18: rings_delete undoes rings_create: called when every kring of the
\* adapter has users == 0 and NEEDRING clear, it leaves every kring without
\* a ring, every ring object free in the RING pool, and every buffer index
\* >= 2 that was in a slot of a real ring free in the BUF pool.
C18_Original ==
    [][(/\ call'.op = "rings_delete"
        /\ \A k \in KringsOf(MemAdapter) :
              kring[k].users = 0 /\ ~kring[k].needring) =>
          \A k \in KringsOf(MemAdapter) :
             /\ kring'[k].ring = NULL
             /\ kring[k].ring # NULL =>
                   /\ nm_mem'.pools[NETMAP_RING_POOL].objfree
                         > nm_mem.pools[NETMAP_RING_POOL].objfree
                   /\ RealRing(St, k) =>
                         \A n \in 1..Len(ring[k].slot) :
                            ring[k].slot[n].buf_idx >= 2 =>
                               ring[k].slot[n].buf_idx
                                  \in FreeSet(nm_mem'.pools[NETMAP_BUF_POOL])]_vars

(***************************************************************************)
(* Properties of the IOMMU group of the domain                             *)
(***************************************************************************)
\* C23: a netmap_mem_finalize for an adapter whose IOMMU group differs from
\* the group the domain has adopted (nm_grp >= 0) returns a nonzero error
\* and leaves active, FINALIZED and nm_grp as they are; a domain without a
\* group (nm_grp == -1) adopts the group of the adapter.
C23_Original ==
    [][call'.op = "finalize" =>
          LET id == DevGroup(call'.k[1])
          IN /\ (nm_mem.nm_grp >= 0 /\ nm_mem.nm_grp # id) =>
                   /\ call'.ret # 0
                   /\ nm_mem'.active = nm_mem.active
                   /\ nm_mem'.finalized = nm_mem.finalized
                   /\ nm_mem'.nm_grp = nm_mem.nm_grp
             /\ nm_mem.nm_grp = -1 => nm_mem'.nm_grp = id]_vars

\* the parameters are valid and the memory is available: a domain that has
\* these parameters and no history finalizes for na on an empty arena
CanFinalize(na) ==
    netmap_mem_finalize(
        [NewDomain EXCEPT !.params =
            [i \in Pools |->
                [NewParams EXCEPT !.size = nm_mem.params[i].size,
                                  !.num = nm_mem.params[i].num]]],
        {}, na, NoInjection).err = 0

\* C24: a deref that brings active to 0 leaves nm_grp == -1, and a finalize
\* of a domain with active == 0 and no group succeeds for an adapter of any
\* IOMMU group, given valid parameters and available memory, whatever
\* happened before; while the domain is in use, a finalize for an adapter
\* of the group the domain has adopted succeeds, also after a finalize for
\* an adapter of another group was rejected.
C24_Original ==
    LET Succeeds(f) == f.err = 0
    IN /\ (call.op = "deref" /\ nm_mem.active = 0) => nm_mem.nm_grp = -1
       /\ (nm_mem.active = 0 /\ nm_mem.nm_grp = -1) =>
             \A na \in Adapters :
                CanFinalize(na) =>
                   Succeeds(netmap_mem_finalize(nm_mem, os_heap, na,
                                                NoInjection))
       /\ (nm_mem.active > 0 /\ nm_mem.finalized) =>
             \A na \in Adapters :
                DevGroup(na) = nm_mem.nm_grp =>
                   Succeeds(netmap_mem_finalize(nm_mem, os_heap, na,
                                                NoInjection))

(***************************************************************************)
(* Pool-level state machine: the object allocator of a finalized domain,   *)
(* called with every index a caller may pass                               *)
(***************************************************************************)
\* most objects handed out at a time, over the three pools
MaxOut == 3

\* a domain finalized from parameter set c, nothing handed out
InitPool ==
    \E c \in 1..Len(ParamSets) :
       LET d == [NewDomain EXCEPT !.params =
                   [i \in Pools |->
                      [NewParams EXCEPT !.size = ParamSets[c][i + 1].size,
                                        !.num = ParamSets[c][i + 1].num]]]
           f == netmap_mem_finalize(d, {}, MemAdapter, NoInjection)
       IN /\ f.err = 0
          /\ nm_mem = f.nmd
          /\ os_heap = f.heap
          /\ ifmem = ZeroIfMem(f.nmd)
          /\ bufw = ZeroBufMem(f.nmd)
          /\ tx_rings = [na \in Adapters |-> FALSE]
          /\ kring = [k \in KringIds |-> NewKring(k[2], k[3])]
          /\ ring = [k \in KringIds |-> NoRing]
          /\ carrier = [na \in Adapters |-> TRUE]
          /\ peer = [na \in Adapters |-> TRUE]
          /\ call = NoCall
          /\ priv = [NoPriv EXCEPT !.np_active = TRUE]
          /\ others = 0
          /\ host_rings = [na \in Adapters |-> TRUE]
          /\ mem_list = MemListInit
          /\ deleting = NoneDeleting
          /\ syncs = NoSyncs
          /\ locks = NoLocks
          /\ held = NoneHeld
          /\ log = <<>>

\* netmap_obj_malloc(&nmd->pools[i], len, NULL, &index)
PoolMalloc(i, len, wild) ==
    /\ Cardinality(UNION {held[q] : q \in Pools}) < MaxOut
    /\ LET m == StMalloc(St, i, len, 0, wild)
       IN Commit(m.st, "obj_malloc", IF m.vaddr = NULL THEN 1 ELSE 0, m.index)
    /\ UNCHANGED <<priv, others>>

\* netmap_obj_free(&nmd->pools[i], j)
PoolFree(i, j) ==
    /\ LET st == StFree(St, i, j)
       IN Commit(st, "obj_free", st.log[1].ret, j)
    /\ UNCHANGED <<priv, others>>

\* the indices netmap_obj_free is called with: those that can have been
\* handed out (allocation takes the lowest free index) and two past the end
\* of the pool, which come from lists that user space can write
\* (netmap_extra_free); the callers of the BUF pool pass no index below 2
FreeIndices(i) ==
    LET lo == IF i = NETMAP_BUF_POOL THEN 2 ELSE 0
        n == nm_mem.pools[i].objtotal
    IN {j \in lo..(n + 1) : j < lo + MaxOut \/ j >= n}

NextPool ==
    \/ \E i \in Pools, wild \in WildValues :
          \E len \in {nm_mem.pools[i]._objsize, nm_mem.pools[i]._objsize + 1} :
             PoolMalloc(i, len, wild)
    \/ \E i \in Pools : \E j \in FreeIndices(i) : PoolFree(i, j)

SpecPool == InitPool /\ [][NextPool]_vars

\* C8: netmap_obj_free(p, j) with the bit of j already set (a double free)
\* or with j >= objtotal returns an error and leaves the bitmap and objfree
\* as they were; with j in range and its bit clear it returns 0, sets exactly
\* that bit and increments objfree by exactly one.
C8_FreeByIndex ==
    [][call'.op = "obj_free" =>
          LET i == log'[1].pool
              j == log'[1].j
              p == nm_mem.pools[i]
              q == nm_mem'.pools[i]
          IN /\ \A o \in Pools \ {i} : nm_mem'.pools[o] = nm_mem.pools[o]
             /\ IF j >= p.objtotal \/ j \in FreeSet(p)
                THEN /\ call'.ret # 0
                     /\ q.bitmap = p.bitmap
                     /\ q.objfree = p.objfree
                ELSE /\ call'.ret = 0
                     /\ FreeSet(q) = FreeSet(p) \cup {j}
                     /\ q.objfree = p.objfree + 1]_vars

\* an object is allocated, freed and freed again: the second free is
\* refused, while another object is still handed out
C8_Witness ==
    /\ call.op = "obj_free" /\ call.ret # 0
    /\ log[1].j < nm_mem.pools[log[1].pool].objtotal
    /\ log[1].j \in FreeSet(nm_mem.pools[log[1].pool])
    /\ held[log[1].pool] # {}

(***************************************************************************)
(* veth_netmap.h: control plane                                            *)
(*                                                                         *)
(* The handlers thread the fabric state st and txr, the tx_rings pointers  *)
(* of the two adapters.  The core calls them with its global lock held, in *)
(* the order of netmap_do_regif and netmap_do_unregif.                     *)
(***************************************************************************)
ENXIO == 6

\* netmap_krings_create(na, 0) of the core: nothing to do when the krings
\* exist, else a zeroed array of krings; fail: the allocation fails
netmap_krings_create(st, txr, na, fail) ==
    IF txr[na] THEN [st |-> st, txr |-> txr, err |-> 0]
    ELSE IF fail THEN [st |-> st, txr |-> txr, err |-> ENOMEM]
    ELSE [st |-> [st EXCEPT
                    !.kring = [k \in KringIds |->
                                 IF k[1] = na THEN NewKring(k[2], k[3])
                                 ELSE st.kring[k]],
                    !.ring = [k \in KringIds |->
                                 IF k[1] = na THEN NoRing ELSE st.ring[k]]],
          txr |-> [txr EXCEPT ![na] = TRUE],
          err |-> 0]

\* netmap_krings_delete(na) of the core: the array is freed
netmap_krings_delete(st, txr, na) ==
    IF ~txr[na] THEN [st |-> st, txr |-> txr]
    ELSE [st |-> [st EXCEPT
                    !.kring = [k \in KringIds |->
                                 IF k[1] = na THEN NewKring(k[2], k[3])
                                 ELSE st.kring[k]],
                    !.ring = [k \in KringIds |->
                                 IF k[1] = na THEN NoRing ELSE st.ring[k]]],
          txr |-> [txr EXCEPT ![na] = FALSE]]

\* variant of krings_needed that never finds the krings needed
krings_needed_Never(st, txr, na) == FALSE

\* krings_needed(na)
krings_needed(st, txr, na) ==
    IF ~txr[na] THEN FALSE
    ELSE \E t \in TxRx : \E i \in 0..((NRings + 1) - 1) :
            st.kring[<<na, t, i>>].needring

\* the cross-link loop of veth_netmap_krings_create:
\* for_rx_tx(t) for (i = 0; i < nma_get_nrings(na, t); i++)
CrossLink(kr, na) ==
    [k \in KringIds |->
        IF k[3] < NRings
        THEN [kr[k] EXCEPT !.pipe = <<PeerOf(k[1]), nm_txrx_swap(k[2]), k[3]>>]
        ELSE kr[k]]

\* variant of veth_netmap_krings_create that returns the error of the
\* second creation without deleting the krings of na
veth_netmap_krings_create_NoUnwind(st, txr, na, hasPeer, fail) ==
    LET Peer(c2) ==
            IF c2.err # 0 THEN [st |-> c2.st, txr |-> c2.txr, err |-> c2.err]
            ELSE [st |-> [c2.st EXCEPT !.kring = CrossLink(c2.st.kring, na)],
                  txr |-> c2.txr, err |-> 0]
        Mine(c1) ==
            IF c1.err # 0 THEN [st |-> c1.st, txr |-> c1.txr, err |-> c1.err]
            ELSE Peer(netmap_krings_create(c1.st, c1.txr, PeerOf(na), fail = 2))
    IN  IF ~hasPeer THEN [st |-> st, txr |-> txr, err |-> ENXIO]
        ELSE Mine(netmap_krings_create(st, txr, na, fail = 1))

\* veth_netmap_krings_create(na); fail = 1, 2: the first, the second
\* netmap_krings_create fails
veth_netmap_krings_create(st, txr, na, hasPeer, fail) ==
    LET \* del_krings1: netmap_krings_delete(na); err: return error;
        DelKrings1(d, error) == [st |-> d.st, txr |-> d.txr, err |-> error]
        Peer(c2) ==
            IF c2.err # 0
            THEN DelKrings1(netmap_krings_delete(c2.st, c2.txr, na), c2.err)
            ELSE [st |-> [c2.st EXCEPT !.kring = CrossLink(c2.st.kring, na)],
                  txr |-> c2.txr, err |-> 0]
        Mine(c1) ==
            IF c1.err # 0 THEN [st |-> c1.st, txr |-> c1.txr, err |-> c1.err]
            ELSE Peer(netmap_krings_create(c1.st, c1.txr, PeerOf(na), fail = 2))
    IN  IF ~hasPeer THEN [st |-> st, txr |-> txr, err |-> ENXIO]
        ELSE Mine(netmap_krings_create(st, txr, na, fail = 1))

\* veth_netmap_krings_delete(na)
veth_netmap_krings_delete(st, txr, na, hasPeer) ==
    LET Mine(d) == netmap_krings_delete(d.st, d.txr, PeerOf(na))
    IN  IF krings_needed(st, txr, na) THEN [st |-> st, txr |-> txr]
        ELSE IF ~hasPeer THEN netmap_krings_delete(st, txr, na)
        ELSE Mine(netmap_krings_delete(st, txr, na))

\* nm_kring_pending_on(kring), nm_kring_pending_off(kring)
nm_kring_pending_on(kr) ==
    kr.nr_pending_mode = NKR_NETMAP_ON /\ kr.nr_mode = NKR_NETMAP_OFF

nm_kring_pending_off(kr) ==
    kr.nr_pending_mode = NKR_NETMAP_OFF /\ kr.nr_mode = NKR_NETMAP_ON

RECURSIVE RegOnMarkLoop(_, _, _)
\* first loop of the register-on branch: kring->pipe->nr_kflags |=
\* NKR_NEEDRING for the krings that are pending on; a NULL pipe is
\* dereferenced (oops) and the handler does not return
RegOnMarkLoop(st, na, n) ==
    IF n <= Len(KringOrder(na))
    THEN LET k == KringOrder(na)[n]
         IN IF ~nm_kring_pending_on(st.kring[k])
            THEN RegOnMarkLoop(st, na, n + 1)
            ELSE IF st.kring[k].pipe = NoKring THEN [st |-> st, oops |-> TRUE]
            ELSE RegOnMarkLoop(
                    [st EXCEPT !.kring[st.kring[k].pipe].needring = TRUE],
                    na, n + 1)
    ELSE [st |-> st, oops |-> FALSE]

RECURSIVE RegOffLoop(_, _, _)
\* the loop of the register-off branch
RegOffLoop(st, na, n) ==
    IF n <= Len(KringOrder(na))
    THEN LET k == KringOrder(na)[n]
         IN IF ~nm_kring_pending_off(st.kring[k])
            THEN RegOffLoop(st, na, n + 1)
            ELSE IF st.kring[k].pipe = NoKring
            THEN [st |-> [st EXCEPT !.kring[k].nr_mode = NKR_NETMAP_OFF],
                  oops |-> TRUE]
            ELSE RegOffLoop(
                    [st EXCEPT !.kring[k].nr_mode = NKR_NETMAP_OFF,
                               !.kring[st.kring[k].pipe].needring = FALSE],
                    na, n + 1)
    ELSE [st |-> st, oops |-> FALSE]

\* variant whose register-off branch deletes the rings of the other end
\* before it clears the flags that keep them
veth_netmap_reg_DeleteFirst(st, na, onoff, hasPeer, wild, junk) ==
    LET Created(rc) ==
            IF rc.err # 0 THEN [st |-> rc.st, ret |-> rc.err, oops |-> FALSE]
            ELSE [st |-> [rc.st EXCEPT
                     !.kring = [k \in KringIds |->
                         IF k[1] = na /\ nm_kring_pending_on(rc.st.kring[k])
                         THEN [rc.st.kring[k] EXCEPT !.nr_mode = NKR_NETMAP_ON]
                         ELSE rc.st.kring[k]]],
                  ret |-> rc.err, oops |-> FALSE]
        Marked(m) ==
            IF m.oops THEN [st |-> m.st, ret |-> 0, oops |-> TRUE]
            ELSE Created(netmap_mem2_rings_create(m.st, PeerOf(na), wild))
        Cleared(o) ==
            IF o.oops THEN [st |-> o.st, ret |-> 0, oops |-> TRUE]
            ELSE [st |-> o.st, ret |-> junk, oops |-> FALSE]
    IN  IF ~hasPeer THEN [st |-> st, ret |-> EINVAL, oops |-> FALSE]
        ELSE IF onoff THEN Marked(RegOnMarkLoop(st, na, 1))
        ELSE Cleared(RegOffLoop(netmap_mem2_rings_delete(st, PeerOf(na)),
                                na, 1))

\* veth_netmap_reg(na, onoff); junk: the value of the local variable error
\* where the handler returns it without having assigned it.  The handler
\* closes and reopens a running interface around the change and sets or
\* clears NAF_NETMAP_ON; neither is state that a handler of this model reads.
veth_netmap_reg(st, na, onoff, hasPeer, wild, junk) ==
    LET \* the rings of the other end exist: our rings go into netmap mode
        Created(rc) ==
            IF rc.err # 0 THEN [st |-> rc.st, ret |-> rc.err, oops |-> FALSE]
            ELSE [st |-> [rc.st EXCEPT
                     !.kring = [k \in KringIds |->
                         IF k[1] = na /\ nm_kring_pending_on(rc.st.kring[k])
                         THEN [rc.st.kring[k] EXCEPT !.nr_mode = NKR_NETMAP_ON]
                         ELSE rc.st.kring[k]]],
                  ret |-> rc.err, oops |-> FALSE]
        Marked(m) ==
            IF m.oops THEN [st |-> m.st, ret |-> 0, oops |-> TRUE]
            ELSE Created(netmap_mem2_rings_create(m.st, PeerOf(na), wild))
        Cleared(o) ==
            IF o.oops THEN [st |-> o.st, ret |-> 0, oops |-> TRUE]
            ELSE [st |-> netmap_mem2_rings_delete(o.st, PeerOf(na)),
                  ret |-> junk, oops |-> FALSE]
    IN  IF ~hasPeer THEN [st |-> st, ret |-> EINVAL, oops |-> FALSE]
        ELSE IF onoff THEN Marked(RegOnMarkLoop(st, na, 1))
        ELSE Cleared(RegOffLoop(st, na, 1))

\* netmap_krings_get(priv) of the core: users++ and nr_pending_mode =
\* NKR_NETMAP_ON on the krings the client selects
netmap_krings_get(kr, na, sel) ==
    [k \in KringIds |->
        IF k[1] = na /\ k[3] >= sel.qfirst[k[2]] /\ k[3] < sel.qlast[k[2]]
        THEN [kr[k] EXCEPT !.users = @ + 1,
                           !.nr_pending_mode = NKR_NETMAP_ON]
        ELSE kr[k]]

\* netmap_krings_put(priv) of the core: users-- on the krings of the client
\* (the only one of its adapter), nr_pending_mode = NKR_NETMAP_OFF on those
\* nobody uses any more
netmap_krings_put(kr, na) ==
    [k \in KringIds |->
        IF k[1] = na /\ kr[k].users > 0
        THEN [kr[k] EXCEPT !.users = @ - 1,
                 !.nr_pending_mode =
                     IF kr[k].users = 1 THEN NKR_NETMAP_OFF ELSE @]
        ELSE kr[k]]

\* nm_kring_pending(priv) of the core, for the only client of na
nm_kring_pending(kr, na) ==
    \E k \in KringsOf(na) : kr[k].nr_pending_mode # kr[k].nr_mode

(***************************************************************************)
(* Control-plane state machine: one client per adapter registers and       *)
(* unregisters; call.k[1] is the adapter of the most recent step           *)
(***************************************************************************)
\* values the uninitialised variable error of veth_netmap_reg may hold
JunkValues == {0, EINVAL}

CtlCommit(st, txr, op, na, ret) ==
    /\ nm_mem' = st.nmd
    /\ kring' = st.kring
    /\ ring' = st.ring
    /\ bufw' = st.bufw
    /\ ifmem' = st.ifmem
    /\ log' = st.log
    /\ held' = HeldAfter(held, st.log, Len(st.log))
    /\ tx_rings' = txr
    /\ call' = [NoCall EXCEPT !.op = op, !.k = <<na>>, !.ret = ret]
    /\ UNCHANGED <<carrier, peer, host_rings, mem_list, deleting, syncs, locks,
                   os_heap, priv,
                   others>>

\* the most recent step was op on adapter na
After(op, na) == call.op = op /\ call.k = <<na>>

\* no netmap_do_regif or netmap_do_unregif is under way
Idle ==
    \/ call.op \in {"none", "krings_delete", "detach"}
    \/ call.op = "krings_create" /\ call.ret # 0
    \/ call.op = "reg_on" /\ call.ret = 0

NoClient(na) == \A k \in KringsOf(na) : kring[k].users = 0

\* netmap_do_regif starts: na->nm_krings_create(na) for the first client
CtlKringsCreate(na, fail) ==
    /\ Idle /\ NoClient(na)
    /\ LET c == veth_netmap_krings_create(St, tx_rings, na, peer[na], fail)
       IN CtlCommit(c.st, c.txr, "krings_create", na, c.err)

CtlKringsGet(na, sel) ==
    /\ After("krings_create", na) /\ call.ret = 0
    /\ CtlCommit([St EXCEPT !.kring = netmap_krings_get(kring, na, sel)],
                 tx_rings, "krings_get", na, 0)

\* netmap_mem_rings_create(na)
CtlRingsCreate(na, wild) ==
    /\ After("krings_get", na)
    /\ LET r == netmap_mem2_rings_create(St, na, wild)
       IN CtlCommit(r.st, tx_rings, "rings_create", na, r.err)

\* na->nm_register(na, 1)
CtlRegOn(na, wild) ==
    /\ After("rings_create", na) /\ call.ret = 0
    /\ nm_kring_pending(kring, na)
    /\ LET r == veth_netmap_reg(St, na, TRUE, peer[na], wild, 0)
       IN CtlCommit(r.st, tx_rings, IF r.oops THEN "oops" ELSE "reg_on",
                    na, r.ret)

\* netmap_do_unregif starts, or netmap_do_regif unwinds after an error
CtlKringsPut(na) ==
    /\ \/ Idle /\ ~NoClient(na)
       \/ After("rings_create", na) /\ call.ret # 0
       \/ After("reg_on", na) /\ call.ret # 0
    /\ CtlCommit([St EXCEPT !.kring = netmap_krings_put(kring, na)],
                 tx_rings, "krings_put", na, 0)

\* na->nm_register(na, 0)
CtlRegOff(na, junk) ==
    /\ After("krings_put", na)
    /\ nm_kring_pending(kring, na)
    /\ LET r == veth_netmap_reg(St, na, FALSE, peer[na], NULL, junk)
       IN CtlCommit(r.st, tx_rings, IF r.oops THEN "oops" ELSE "reg_off",
                    na, r.ret)

\* netmap_mem_rings_delete(na)
CtlRingsDelete(na) ==
    /\ \/ After("reg_off", na)
       \/ After("krings_put", na) /\ ~nm_kring_pending(kring, na)
    /\ CtlCommit(netmap_mem2_rings_delete(St, na), tx_rings,
                 "rings_delete", na, 0)

\* na->nm_krings_delete(na), the last client having left
CtlKringsDelete(na) ==
    /\ After("rings_delete", na)
    /\ LET d == veth_netmap_krings_delete(St, tx_rings, na, peer[na])
       IN CtlCommit(d.st, d.txr, "krings_delete", na, 0)

\* the pair is taken apart: priv->peer becomes NULL on both ends
CtlDetach ==
    /\ Idle /\ \E na \in Adapters : peer[na]
    /\ peer' = [na \in Adapters |-> FALSE]
    /\ call' = [NoCall EXCEPT !.op = "detach"]
    /\ log' = <<>>
    /\ UNCHANGED <<tx_rings, kring, ring, carrier, nm_mem, os_heap, ifmem,
                   bufw, priv, others, host_rings, mem_list, deleting, syncs, locks, held>>

\* the parameters of the domain of the pair: ample, too few buffers for the
\* rings of one adapter, and buffers for the rings of one adapter and a half
CtlParamSets ==
    {ParamSets[1], ParamSets[2],
     <<Param(1024, 10), Param(1024, 4), Param(2048, 10)>>}

\* two attached adapters without krings, on a finalized domain
InitCtl ==
    \E ps \in CtlParamSets :
       LET d == [NewDomain EXCEPT !.params =
                   [i \in Pools |->
                      [NewParams EXCEPT !.size = ps[i + 1].size,
                                        !.num = ps[i + 1].num]]]
           f == netmap_mem_finalize(d, {}, MemAdapter, NoInjection)
       IN /\ nm_mem = f.nmd
          /\ os_heap = f.heap
          /\ ifmem = ZeroIfMem(f.nmd)
          /\ bufw = ZeroBufMem(f.nmd)
          /\ tx_rings = [na \in Adapters |-> FALSE]
          /\ kring = [k \in KringIds |-> NewKring(k[2], k[3])]
          /\ ring = [k \in KringIds |-> NoRing]
          /\ carrier = [na \in Adapters |-> TRUE]
          /\ peer = [na \in Adapters |-> TRUE]
          /\ call = NoCall
          /\ priv = NoPriv
          /\ others = 1
          /\ host_rings = [na \in Adapters |-> TRUE]
          /\ mem_list = MemListInit
          /\ deleting = NoneDeleting
          /\ syncs = NoSyncs
          /\ locks = NoLocks
          /\ held = NoneHeld
          /\ log = <<>>

NextCtl ==
    \/ \E na \in Adapters, fail \in {0, 1, 2} : CtlKringsCreate(na, fail)
    \/ \E na \in Adapters, sel \in Selections : CtlKringsGet(na, sel)
    \/ \E na \in Adapters, wild \in WildValues : CtlRingsCreate(na, wild)
    \/ \E na \in Adapters, wild \in WildValues : CtlRegOn(na, wild)
    \/ \E na \in Adapters : CtlKringsPut(na)
    \/ \E na \in Adapters, junk \in JunkValues : CtlRegOff(na, junk)
    \/ \E na \in Adapters : CtlRingsDelete(na)
    \/ \E na \in Adapters : CtlKringsDelete(na)
    \/ CtlDetach

SpecCtl == InitCtl /\ [][NextCtl]_vars

(***************************************************************************)
(* Properties of the control plane                                         *)
(***************************************************************************)
\* C4: after a successful krings_create on either adapter, every kring k of
\* both adapters, for both directions and every ring index, has its pipe set
\* and k.pipe.pipe = k, the TX kring i of one adapter being paired with the
\* RX kring i of the other; a repeated krings_create leaves all pipe
\* pointers as they are.
C4_Original ==
    [][(call'.op = "krings_create" /\ call'.ret = 0) =>
          /\ \A k \in KringIds :
                /\ kring'[k].pipe # NoKring
                /\ kring'[k].pipe = <<PeerOf(k[1]), nm_txrx_swap(k[2]), k[3]>>
                /\ kring'[kring'[k].pipe].pipe = k
          /\ (tx_rings[0] /\ tx_rings[1]) =>
                \A k \in KringIds : kring'[k].pipe = kring[k].pipe]_vars

\* C13: register-off applied to the state a register-off has left changes
\* nothing: no kring mode, no NEEDRING flag (no field of any kring of either
\* adapter), no ring, and it frees no object of the domain.
C13_RegOffTwice ==
    call.op = "reg_off" =>
       LET Same(r) == /\ ~r.oops
                      /\ r.st.kring = kring
                      /\ r.st.ring = ring
                      /\ r.st.nmd = nm_mem
                      /\ r.st.log = <<>>
       IN Same(veth_netmap_reg(St, call.k[1], FALSE, peer[call.k[1]], NULL, 0))

\* the register-off has switched krings off and has freed rings of the
\* other end
C13_Witness ==
    /\ call.op = "reg_off"
    /\ \E k \in KringsOf(call.k[1]) : kring[k].ring # NULL
    /\ \E n \in 1..Len(log) : /\ log[n].ev = "free" /\ log[n].ret = 0
                              /\ log[n].pool = NETMAP_RING_POOL

\* C19: in every state the register-on, register-off and rings_delete calls
\* on the two adapters of a pair can reach, every kring whose mode is
\* NETMAP_ON has a peer kring, and the ring of that peer kring is allocated.
C19_PeerRingWhileOn ==
    \A k \in KringIds :
       kring[k].nr_mode = NKR_NETMAP_ON =>
          /\ kring[k].pipe # NoKring
          /\ kring[kring[k].pipe].ring # NULL

\* rings_delete has run on the other end of a kring that is on, after the
\* last client of that end has left the peer kring, and the ring is there
C19_Witness ==
    /\ call.op = "rings_delete"
    /\ \E k \in KringIds :
          /\ kring[k].nr_mode = NKR_NETMAP_ON
          /\ kring[k].pipe # NoKring
          /\ kring[k].pipe[1] = call.k[1]
          /\ kring[kring[k].pipe].users = 0
          /\ kring[kring[k].pipe].ring # NULL

(***************************************************************************)
(* Properties of the list of allocators                                    *)
(***************************************************************************)
\* the nm_id values of the linked allocators
LinkedIds == {mem_list[i].nm_id : i \in 1..Len(mem_list)}

\* the list, in next order, from its element of smallest nm_id
FromSmallest ==
    LET m == CHOOSE i \in 1..Len(mem_list) :
                \A j \in 1..Len(mem_list) :
                   mem_list[i].nm_id <= mem_list[j].nm_id
    IN  SubSeq(mem_list, m, Len(mem_list)) \o SubSeq(mem_list, 1, m - 1)

\* C20: after any sequence of creations and releases of allocators, wrap
\* around of the identifier included, the linked allocators have pairwise
\* distinct nonzero nm_id values, the circular list is in increasing nm_id
\* order from its smallest element, and the assignment of an identifier
\* fails only when every identifier from 1 to the largest one is in use.
C20_ListOrderedDistinct ==
    /\ \A i \in 1..Len(mem_list) : mem_list[i].nm_id # 0
    /\ \A i, j \in 1..Len(mem_list) :
          i # j => mem_list[i].nm_id # mem_list[j].nm_id
    /\ \A i \in 1..(Len(mem_list) - 1) :
          FromSmallest[i].nm_id < FromSmallest[i + 1].nm_id
    /\ (call.op = "private_new" /\ call.ret = ENOMEM) =>
          LinkedIds = 1..(2 ^ IdBits - 1)

\* an assignment has failed on a list that is full after identifiers were
\* released and given out again past the largest one
C20_Witness ==
    /\ call.op = "private_new" /\ call.ret = ENOMEM
    /\ mem_list[Len(mem_list)].nm_id # 2 ^ IdBits - 1

RECURSIVE CreatedList(_)
\* the list after n consecutive calls of _netmap_mem_private_new with valid
\* parameters, made on the list netmap_mem_init leaves
CreatedList(n) ==
    IF n = 0 THEN MemListInit
    ELSE netmap_mem_private_new(CreatedList(n - 1), 0).list

\* the private allocators that can be created one after the other before
\* the identifiers run out, as the claim counts them and as they are
CreationsClaimed == 2 ^ IdBits - 1

CreationsPossible == 2 ^ IdBits - 2

\* the creation of a private allocator, with valid parameters, that comes
\* after n consecutive successful creations on the initial list
NthCreation(n) ==
    /\ n = Len(mem_list) - 1
    /\ mem_list = CreatedList(n)
    /\ call'.op = "private_new" /\ call'.ret # EINVAL

\* it succeeds and the new allocator has a nonzero nm_id no other has
CreationSucceeds ==
    /\ call'.ret = 0
    /\ Len(mem_list') = Len(mem_list) + 1
    /\ mem_list'[Len(mem_list')].nm_id # 0
    /\ \A i \in 1..Len(mem_list) :
          mem_list[i].nm_id # mem_list'[Len(mem_list')].nm_id

\* C21 as stated: from the list that holds nm_mem (nm_id 1) alone,
\* 2^IdBits - 1 consecutive creations of private allocators succeed, each
\* with a distinct nonzero nm_id, and the next one fails with ENOMEM.
C21_Original ==
    [][\A n \in 0..CreationsClaimed :
          NthCreation(n) =>
             IF n < CreationsClaimed THEN CreationSucceeds
             ELSE call'.ret = ENOMEM /\ mem_list' = mem_list]_vars

\* C21: from the list that holds nm_mem (nm_id 1) alone, 2^IdBits - 2
\* consecutive creations of private allocators succeed, each with a
\* distinct nonzero nm_id, and the next one fails with ENOMEM: nm_mem holds
\* one of the 2^IdBits - 1 identifiers.
C21_CreationsUntilFull ==
    [][\A n \in 0..CreationsPossible :
          NthCreation(n) =>
             IF n < CreationsPossible THEN CreationSucceeds
             ELSE call'.ret = ENOMEM /\ mem_list' = mem_list]_vars

\* the creation after the last one that succeeds has failed
C21_Witness ==
    /\ call.op = "private_new" /\ call.ret = ENOMEM
    /\ mem_list = CreatedList(CreationsPossible)
    /\ Len(mem_list) = CreationsPossible + 1

(***************************************************************************)
(* Properties of the references to the allocators                          *)
(***************************************************************************)
\* every linked allocator is referenced, its refcount counts the references
\* held (nm_mem: and the one netmap_mem_init took); an allocator that waits
\* for its netmap_mem_delete is referenced by nobody
RefsConsistent(list, del) ==
    /\ \A pos \in 1..Len(list) :
          /\ list[pos].refcount > 0
          /\ list[pos].refcount =
                Cardinality(list[pos].refs)
                + (IF list[pos].private THEN 0 ELSE 1)
    /\ \A t \in Threads :
          del[t] # <<>> =>
             del[t][1].refcount = 0 /\ del[t][1].refs = {}

\* C22: under any interleaving of netmap_mem_get, netmap_mem_put and
\* netmap_mem_find by threads that put only references they hold, an
\* allocator is unlinked exactly when a put brings its refcount to 0 and is
\* then deleted once, by the thread of that put; every linked allocator has
\* refcount > 0; netmap_mem_find takes a reference only to a linked
\* allocator that is not hidden.
C22_RefcountLifecycle ==
    [][/\ RefsConsistent(mem_list', deleting')
       /\ Len(mem_list') < Len(mem_list) =>
             /\ call'.op = "put"
             /\ \E t \in Threads, pos \in 1..Len(mem_list) :
                   /\ mem_list[pos].refcount = 1
                   /\ deleting[t] = <<>> /\ deleting'[t] # <<>>
                   /\ deleting'[t][1].nm_id = mem_list[pos].nm_id
                   /\ mem_list' = nm_mem_release_id(mem_list, pos)
                   /\ \A u \in Threads \ {t} : deleting'[u] = deleting[u]
       /\ \A t \in Threads :
             /\ (deleting'[t] # deleting[t] /\ deleting'[t] # <<>>) =>
                   Len(mem_list') < Len(mem_list)
             /\ (deleting'[t] # deleting[t] /\ deleting'[t] = <<>>) =>
                   call'.op = "delete" /\ mem_list' = mem_list
       /\ call'.op = "find" =>
             /\ deleting' = deleting
             /\ Len(mem_list') = Len(mem_list)
             /\ \A pos \in 1..Len(mem_list) :
                   mem_list'[pos] # mem_list[pos] =>
                      /\ ~mem_list[pos].hidden
                      /\ mem_list'[pos].refcount = mem_list[pos].refcount + 1
                      /\ call'.ret = 1
             /\ call'.ret = 1 => mem_list' # mem_list]_vars

\* netmap_mem_find has returned NULL while an allocator that is not hidden
\* was unlinked by a put and not yet deleted
C22_Witness ==
    /\ call.op = "find" /\ call.ret = 0
    /\ \E t \in Threads :
          /\ deleting[t] # <<>>
          /\ ~deleting[t][1].hidden
          /\ \A pos \in 1..Len(mem_list) :
                mem_list[pos].nm_id # deleting[t][1].nm_id

(***************************************************************************)
(* Properties of the creation and the deletion of the krings of the pair   *)
(***************************************************************************)
\* C29: a krings_create(A) that returns an error - the peer is not found,
\* the creation of A's krings fails or the creation of the peer's krings
\* fails - leaves no kring created on either adapter (the krings of A it
\* created first are deleted again) and has modified no pipe pointer.
C29_FailedCreateLeavesNothing ==
    [][(call'.op = "krings_create" /\ call'.ret # 0) =>
          /\ tx_rings' = tx_rings
          /\ \A k \in KringIds : kring'[k].pipe = kring[k].pipe
      ]_vars

\* a krings_create has failed for lack of memory with the peer attached
C29_Witness ==
    /\ call.op = "krings_create" /\ call.ret = ENOMEM
    /\ peer[call.k[1]]
    /\ \A na \in Adapters : ~tx_rings[na]

RingsCreateChangesNothing(na) ==
    \A wild \in WildValues :
       LET r == netmap_mem2_rings_create(St, na, wild)
       IN /\ r.st.nmd = nm_mem /\ r.st.kring = kring
          /\ r.st.ring = ring /\ r.st.bufw = bufw

\* C31 as stated: rings_create allocates a ring only for a kring that has
\* users or NEEDRING set and whose ring is null, never replaces or
\* re-populates an existing ring, and a second rings_create issued with no
\* intervening change leaves every kring, ring, slot, bitmap and objfree
\* unchanged.
C31_Original ==
    /\ [][call'.op = "rings_create" =>
            \A k \in KringIds :
               /\ kring[k].ring # NULL =>
                     (kring'[k].ring = kring[k].ring /\ ring'[k] = ring[k])
               /\ (kring[k].ring = NULL /\ kring'[k].ring # NULL) =>
                     (kring[k].users > 0 \/ kring[k].needring)
         ]_vars
    /\ [](call.op = "rings_create" => RingsCreateChangesNothing(MemAdapter))

(***************************************************************************)
(* Properties of the clusters of the pools                                 *)
(***************************************************************************)
\* C32 as stated: no cluster is leaked: once the pools have been reset
\* (also by a domain finalize that failed, the halving path included)
\* every cluster obtained from the contiguous-page allocator has been
\* returned to it.
C32_Original ==
    (\A i \in Pools : ~nm_mem.pools[i].lut_set) => os_heap = {}

(***************************************************************************)
(* Properties of the locking of the list of the allocators                 *)
(***************************************************************************)
\* C33: every insertion into and removal from the list of the allocators,
\* every update of netmap_last_mem_d and every change of a refcount is made
\* by a thread that holds nm_mem_list_lock, the error paths of the creation
\* of a private and of a passthrough allocator included
C33_Original ==
    [][mem_list' # mem_list =>
          \E t \in Threads :
             /\ locks.list_lock = t
             /\ locks'.pc[t] # locks.pc[t]]_vars

(***************************************************************************)
(* Properties of the free space of the sender                              *)
(***************************************************************************)
\* C34: a TX kring that starts with nr_hwtail = nm_prev(nr_hwcur) still has
\* nr_hwtail = nm_prev(nr_hwcur) after any sequence of txsync calls,
\* whatever rxsync calls of the peer come in between: the slots handed to
\* the peer are reclaimed in the same call
C34_TxSpaceNeverShrinks ==
    \A k \in TxKrings :
       kring[k].nr_hwtail =
          nm_prev(kring[k].nr_hwcur, kring[k].nkr_num_slots - 1)

\* a txsync has handed slots to the peer and has stopped before head
\* because the peer's ring was full, after an rxsync of the peer
C34_Witness ==
    /\ call.op = "txsync"
    /\ call.n >= 1
    /\ kring[call.k].nr_hwcur # kring[call.k].rhead
    /\ kring[kring[call.k].pipe].nr_hwcur # 0

(***************************************************************************)
(* Properties of the register handler                                      *)
(***************************************************************************)
\* C35: register (on or off) never dereferences an unset pipe: every kring
\* of index 0..nrings, the host kring included, that is pending on or
\* pending off when register reads its pipe has had it set by the
\* cross-link of krings_create
C35_Original == call.op # "oops"

\* C36: a register-on that fails because the rings of the peer cannot be
\* created leaves the pair as it found it: no kring of the caller has been
\* switched to NETMAP_ON and every NEEDRING flag of the krings of the peer
\* has the value it had before the call
C36_Original ==
    [][(call'.op = "reg_on" /\ call'.ret # 0) =>
          \A k \in KringIds :
             /\ k[1] = call'.k[1] => kring'[k].nr_mode = kring[k].nr_mode
             /\ k[1] = PeerOf(call'.k[1]) =>
                   kring'[k].needring = kring[k].needring]_vars

\* C37: register returns a well-defined result on every path: register-off
\* with the peer present returns 0, register-on returns 0 when the rings of
\* the peer have been created and the error of netmap_mem_rings_create
\* otherwise, and with the peer absent either direction returns EINVAL and
\* changes nothing
C37_Original ==
    [][(call'.op \in {"reg_on", "reg_off"}) =>
          LET na == call'.k[1]
          IN IF ~peer[na]
             THEN /\ call'.ret = EINVAL
                  /\ kring' = kring /\ ring' = ring /\ nm_mem' = nm_mem
             ELSE IF call'.op = "reg_off" THEN call'.ret = 0
             ELSE /\ call'.ret \in {0, ENOMEM}
                  /\ call'.ret = 0 =>
                        \A k \in KringIds :
                           (k[1] = PeerOf(na) /\ kring'[k].needring) =>
                              kring'[k].ring # NULL]_vars

(***************************************************************************)
(* Properties of the mutex of the allocators                               *)
(***************************************************************************)
\* C38: every operation of both variants that takes the mutex of the
\* allocator has released it when it returns, on every path, so that a
\* further operation on the same allocator can take it, also after an
\* if_new or a rings_create for an interface that is not in the
\* passthrough map
C38_Original == \A v \in Variants : locks.nm_mtx[v] = "free"

(***************************************************************************)
(* Properties of the sizes of a domain                                     *)
(***************************************************************************)
\* the true size of a pool, in pages
TruePages(p) == p._numclusters * (p._clustsize \div PAGE_SIZE)

\* C39: for every objtotal and objsize that configure accepts under the
\* limits of a pool, the u_int computations memtotal = numclusters *
\* clustsize and nm_totalsize = sum of the three memtotal do not wrap
\* around: memtotal and nm_totalsize are the true sizes
C39_Original ==
    call.op = "finalize" =>
       /\ \A i \in Pools : log[1].memtotal[i] = TruePages(nm_mem.pools[i])
       /\ log[1].nm_totalsize =
             TruePages(nm_mem.pools[NETMAP_IF_POOL])
             + TruePages(nm_mem.pools[NETMAP_RING_POOL])
             + TruePages(nm_mem.pools[NETMAP_BUF_POOL])

(***************************************************************************)
(* Properties of the buffers of the rings                                  *)
(***************************************************************************)
\* the slots of the rings that exist
RingSlots ==
    {s \in KringIds \X (1..NumDesc) :
        kring[s[1]].ring # NULL /\ s[2] <= Len(ring[s[1]].slot)}

RECURSIVE ExtraChain(_, _)
\* the buffers of the list that starts at head, each buffer holding the
\* index of the next in its first word; n bounds the walk
ExtraChain(head, n) ==
    IF head = 0 \/ n = 0 \/ head \notin DOMAIN bufw THEN {}
    ELSE {head} \cup ExtraChain(bufw[head], n - 1)

\* the extra buffers of the client
ExtraBufs ==
    IF priv.np_nifp = NULL THEN {}
    ELSE ExtraChain(ifmem[priv.np_nifp].ni_bufs_head,
                    nm_mem.pools[NETMAP_BUF_POOL].objtotal)

\* object j of the BUF pool is marked free in the bitmap
BufMarkedFree(j) ==
    LET p == nm_mem.pools[NETMAP_BUF_POOL]
    IN  /\ p.bitmap_set
        /\ j \div WordBits < Len(p.bitmap)
        /\ (j % WordBits) \in p.bitmap[(j \div WordBits) + 1]

\* C40: while the domain is finalized and in use, no buffer index >= 2 is
\* in two slots of rings that exist, none is both in a slot and in the
\* list of the extra buffers, and none that is in a slot of a real ring is
\* marked free in the bitmap of the BUF pool
C40_Original ==
    (nm_mem.finalized /\ nm_mem.active > 0) =>
       /\ \A s, u \in RingSlots :
             (s # u /\ ring[s[1]].slot[s[2]].buf_idx >= 2) =>
                ring[s[1]].slot[s[2]].buf_idx # ring[u[1]].slot[u[2]].buf_idx
       /\ \A s \in RingSlots :
             ring[s[1]].slot[s[2]].buf_idx >= 2 =>
                ring[s[1]].slot[s[2]].buf_idx \notin ExtraBufs
       /\ \A s \in RingSlots :
             (RealRing(St, s[1]) /\ ring[s[1]].slot[s[2]].buf_idx >= 2) =>
                ~BufMarkedFree(ring[s[1]].slot[s[2]].buf_idx)

====
